---- MODULE Spec2Model ----
(***************************************************************************)
(* Model of the Classify photo analyser (zubenelakrab/Classify):          *)
(*   - scoringEngine.js   (src/unnamed/part_002, lines 1-385)              *)
(*   - imageAnalyzer.js   (src/unnamed/part_000)                           *)
(*   - sharpnessAnalyzer.js, histogramAnalyzer.js, compositionAnalyzer.js  *)
(*   - config/default.js                                                   *)
(*                                                                         *)
(* Numbers.  JavaScript numbers are modelled as exact fractions           *)
(* [n |-> numerator, d |-> denominator] with d >= 0:                       *)
(*   d > 0            a finite value n/d                                   *)
(*   d = 0, n = 0     NaN        (0/0)                                     *)
(*   d = 0, n = +-1   +-Infinity (x/0, x # 0)                              *)
(* so that an unguarded division by zero produces what the build          *)
(* produces.  Floating-point rounding error is not modelled (a sum such   *)
(* as 0.25*66 + 0.15*85 is the exact rational), except where it decides   *)
(* the result: calculateKeeperProbability is computed in doubles.         *)
(*                                                                         *)
(* null / undefined are the record Null; an object that lacks a property  *)
(* is a record that lacks the field.                                       *)
(***************************************************************************)
EXTENDS Integers, Sequences, FiniteSets, TLC

VARIABLES
  \* ---- calculateScores: successive calls, call k on analyses[k], options[k] ----
  analyses,      \* the sequence of `analyses` arguments
  options,       \* the sequence of `options` arguments
  scoring,       \* the sequence of values returned so far
  \* ---- analyzeImages / analyzeImage ----
  filePaths,     \* the argument: a sequence of file paths
  concurrency,   \* options.concurrency
  analysisOptions, \* the rest of options, handed to every analyzeImage call
  world,         \* the promises of the engines on the preview of each file
  i,             \* the batch loop index (part_000:123)
  batch,         \* the slice being awaited, as the set of positions in it
  task,          \* the map callbacks started so far, one per position
  results,       \* the `results` array
  completed,     \* the `completed` counter
  progress,      \* the sequence of onProgress payloads
  run,           \* "idle" | "loop" | "awaiting" | "resolved" | "rejected"
  \* ---- the three engines on one image ----
  imageBuffer,   \* the argument of analyzeSharpness/Histogram/Composition
  sharpness,     \* Null until analyzeSharpness has settled, then its promise
  histogram,     \* likewise for analyzeHistogram
  composition,   \* likewise for analyzeComposition
  \* ---- fileOrganizer.js on a file system ----
  disk,          \* the file system: its directories and its files
  diskBefore,    \* the file system when organizeImages was called
  organized,     \* Null until organizeImages has settled, then its call and promise
  restored,      \* Null until restoreFromManifest has settled, then its promise
  duplicates,    \* Null until findDuplicates has settled, then its call and value
  removed,       \* Null until removeDuplicates has settled, then its call and value
  \* ---- detectBurstGroups (part_000:194-244) ----
  bursts         \* Null until detectBurstGroups has returned, then its call and value

scoreVars == <<analyses, options, scoring>>
batchVars ==
  <<filePaths, concurrency, analysisOptions, world, i, batch, task, results, completed, progress, run>>
engineVars == <<imageBuffer, sharpness, histogram, composition>>
\* what works on the analysed images: fileOrganizer.js and detectBurstGroups
organizerVars == <<disk, diskBefore, organized, restored, duplicates, removed, bursts>>
vars == <<analyses, options, scoring, filePaths, concurrency, analysisOptions, world, i, batch,
          task, results, completed, progress, run, imageBuffer, sharpness, histogram, composition,
          disk, diskBefore, organized, restored, duplicates, removed, bursts>>

Null == [null |-> TRUE]

(***************************************************************************)
(* JavaScript number arithmetic on fractions                               *)
(***************************************************************************)
Sgn(a) == IF a > 0 THEN 1 ELSE IF a < 0 THEN -1 ELSE 0

Abs(a) == IF a < 0 THEN -a ELSE a

RECURSIVE Gcd(_, _)
Gcd(a, b) == IF b = 0 THEN a ELSE Gcd(b, a % b)

\* the fraction a/b of two integers, as JavaScript's a / b
Frac(a, b) ==
  IF b = 0 THEN [n |-> Sgn(a), d |-> 0]
  ELSE LET g == Gcd(Abs(a), Abs(b))
       IN [n |-> Sgn(b) * (a \div g), d |-> Abs(b) \div g]

I(a) == [n |-> a, d |-> 1]

NaN == [n |-> 0, d |-> 0]

IsNaN(x) == x.d = 0 /\ x.n = 0

IsFinite(x) == x.d > 0

FAdd(x, y) ==
  IF x.d = 0 /\ y.d = 0 THEN (IF x.n = y.n THEN x ELSE NaN)
  ELSE IF x.d = 0 THEN x
  ELSE IF y.d = 0 THEN y
  ELSE LET g == Gcd(x.d, y.d)
       IN Frac(x.n * (y.d \div g) + y.n * (x.d \div g), (x.d \div g) * y.d)

FNeg(x) == [n |-> -x.n, d |-> x.d]

FSub(x, y) == FAdd(x, FNeg(y))

FMul(x, y) == Frac(x.n * y.n, x.d * y.d)

FRecip(x) == IF x.n < 0 THEN [n |-> -x.d, d |-> -x.n] ELSE [n |-> x.d, d |-> x.n]

FDiv(x, y) == FMul(x, FRecip(y))

FAbs(x) == [n |-> Abs(x.n), d |-> x.d]

\* comparisons: every comparison with NaN is false
FLt(x, y) ==
  /\ ~IsNaN(x)
  /\ ~IsNaN(y)
  /\ IF x.d = 0 /\ y.d = 0 THEN x.n < y.n ELSE x.n * y.d < y.n * x.d

FLe(x, y) ==
  /\ ~IsNaN(x)
  /\ ~IsNaN(y)
  /\ IF x.d = 0 /\ y.d = 0 THEN x.n <= y.n ELSE x.n * y.d <= y.n * x.d

FGt(x, y) == FLt(y, x)

FGe(x, y) == FLe(y, x)

FEq(x, y) == FLe(x, y) /\ FLe(y, x)

\* Math.max / Math.min: NaN if either argument is NaN
FMax(x, y) == IF IsNaN(x) \/ IsNaN(y) THEN NaN ELSE IF FLt(x, y) THEN y ELSE x

FMin(x, y) == IF IsNaN(x) \/ IsNaN(y) THEN NaN ELSE IF FLt(y, x) THEN y ELSE x

\* Math.round: floor(x + 0.5); NaN and the infinities are kept
FRound(x) ==
  IF x.d = 0 THEN x ELSE I(x.n \div x.d + (2 * (x.n % x.d) + x.d) \div (2 * x.d))

\* Math.round(x * k) / k
FRoundTo(x, k) ==
  IF x.d = 0 THEN x
  ELSE FAdd(I(x.n \div x.d), Frac((2 * k * (x.n % x.d) + x.d) \div (2 * x.d), k))

\* JavaScript truthiness of a number: 0 and NaN are falsy
Truthy(x) == x # Null /\ ~IsNaN(x) /\ x.n # 0

\* a || b on numbers (or a missing value)
OrElse(x, dflt) == IF Truthy(x) THEN x ELSE dflt

(***************************************************************************)
(* config/default.js                                                       *)
(***************************************************************************)
\* weights are kept in hundredths: 0.25 is Frac(25, 100)
weights ==
  [ landscape |-> [ sharpness |-> Frac(20, 100), exposure |-> Frac(25, 100),
                    composition |-> Frac(25, 100), dynamicRange |-> Frac(15, 100),
                    horizonLevel |-> Frac(10, 100), noise |-> Frac(5, 100) ],
    general   |-> [ sharpness |-> Frac(25, 100), focusAccuracy |-> Frac(15, 100),
                    exposure |-> Frac(25, 100), composition |-> Frac(15, 100),
                    noise |-> Frac(10, 100), dynamicRange |-> Frac(10, 100) ] ]

thresholds == [select |-> 72, good |-> 58, review |-> 45, maybe |-> 30, reject |-> 0]

autoReject ==
  [ motionBlurSeverity |-> Frac(85, 100), defocusSeverity |-> Frac(85, 100),
    highlightClip |-> I(25), shadowClip |-> I(25) ]

folders ==
  [select |-> "selects", good |-> "good", review |-> "review", maybe |-> "maybe", reject |-> "reject"]

(***************************************************************************)
(* scoringEngine.js                                                        *)
(***************************************************************************)
\* Math.max(0, Math.min(100, x))
Clamp100(x) == FMax(I(0), FMin(I(100), x))

calculateSharpnessScore_scoring(sh) ==
  IF sh = Null THEN I(50)
  ELSE Clamp100(FRound(OrElse(sh.overall.score, I(0))))

calculateExposureScore_scoring(hist) ==
  IF hist = Null THEN I(50) ELSE OrElse(hist.score, I(50))

calculateFocusAccuracyScore(sh, exif) ==
  IF sh = Null THEN I(50)
  ELSE LET sharpestRegions == sh.focusPlane.sharpestRegions
           base == IF \E k \in 1..Len(sharpestRegions) : sharpestRegions[k] = "center" THEN 85
                   ELSE IF Len(sharpestRegions) > 0 THEN 75
                   ELSE 70
           score == IF exif # Null /\ exif.focus.continuous THEN base - 5 ELSE base
       IN Clamp100(I(score))

\* the noise score with the bands up to ISO 400 merged into one
calculateNoiseScore_sevenBands(exif, hist) ==
  IF exif = Null \/ exif.exposure.iso = 0 THEN I(80)
  ELSE LET iso == exif.exposure.iso
           band == IF iso <= 400 THEN 100
                   ELSE IF iso <= 800 THEN 85
                   ELSE IF iso <= 1600 THEN 75
                   ELSE IF iso <= 3200 THEN 60
                   ELSE IF iso <= 6400 THEN 45
                   ELSE IF iso <= 12800 THEN 30
                   ELSE 15
           pushed == /\ hist # Null
                     /\ "zones" \in DOMAIN hist.exposure
                     /\ FGt(hist.exposure.zones.shadows, I(30))
                     /\ iso > 1600
       IN Clamp100(I(IF pushed THEN band - 10 ELSE band))

calculateNoiseScore(exif, hist) ==
  IF exif = Null \/ exif.exposure.iso = 0 THEN I(80)
  ELSE LET iso == exif.exposure.iso
           band == IF iso <= 200 THEN 100
                   ELSE IF iso <= 400 THEN 95
                   ELSE IF iso <= 800 THEN 85
                   ELSE IF iso <= 1600 THEN 75
                   ELSE IF iso <= 3200 THEN 60
                   ELSE IF iso <= 6400 THEN 45
                   ELSE IF iso <= 12800 THEN 30
                   ELSE 15
           pushed == /\ hist # Null
                     /\ "zones" \in DOMAIN hist.exposure
                     /\ FGt(hist.exposure.zones.shadows, I(30))
                     /\ iso > 1600
       IN Clamp100(I(IF pushed THEN band - 10 ELSE band))

calculateStarRating(score) ==
  IF FGe(score, I(thresholds.select)) THEN 5
  ELSE IF FGe(score, I(thresholds.good)) THEN 4
  ELSE IF FGe(score, I(thresholds.review)) THEN 3
  ELSE IF FGe(score, I(thresholds.maybe)) THEN 2
  ELSE 1

\* a variant of checkAutoReject whose comparisons are strict (> instead of >=)
checkAutoReject_strict(an) ==
  LET sh == an.sharpness
      hist == an.histogram
      motion == sh # Null /\ sh.blur.type = "motion"
                /\ FGt(sh.blur.severity, autoReject.motionBlurSeverity)
      defocus == sh # Null /\ sh.blur.type = "defocus"
                 /\ FGt(sh.blur.severity, autoReject.defocusSeverity)
      blown == hist # Null /\ FGt(hist.clipping.highlights.clipped, autoReject.highlightClip)
      crushed == hist # Null /\ FGt(hist.clipping.shadows.clipped, autoReject.shadowClip)
      reasons == (IF motion THEN <<"severe-motion-blur">> ELSE <<>>)
                 \o (IF defocus THEN <<"severely-out-of-focus">> ELSE <<>>)
                 \o (IF blown THEN <<"blown-highlights">> ELSE <<>>)
                 \o (IF crushed THEN <<"crushed-shadows">> ELSE <<>>)
  IN [shouldReject |-> Len(reasons) > 0, reasons |-> reasons]

checkAutoReject(an) ==
  LET sh == an.sharpness
      hist == an.histogram
      motion == sh # Null /\ sh.blur.type = "motion"
                /\ FGe(sh.blur.severity, autoReject.motionBlurSeverity)
      defocus == sh # Null /\ sh.blur.type = "defocus"
                 /\ FGe(sh.blur.severity, autoReject.defocusSeverity)
      blown == hist # Null /\ FGe(hist.clipping.highlights.clipped, autoReject.highlightClip)
      crushed == hist # Null /\ FGe(hist.clipping.shadows.clipped, autoReject.shadowClip)
      reasons == (IF motion THEN <<"severe-motion-blur">> ELSE <<>>)
                 \o (IF defocus THEN <<"severely-out-of-focus">> ELSE <<>>)
                 \o (IF blown THEN <<"blown-highlights">> ELSE <<>>)
                 \o (IF crushed THEN <<"crushed-shadows">> ELSE <<>>)
  IN [shouldReject |-> Len(reasons) > 0, reasons |-> reasons]

\* the order of Object.entries(scores): the order the literal at part_002:31-39 lists them
ScoreKeys ==
  <<"sharpness", "exposure", "focusAccuracy", "composition", "noise", "dynamicRange", "horizonLevel">>

\* Array.prototype.sort is stable: the first key with the largest (smallest) value
StrongestKey(scores) ==
  LET present == SelectSeq(ScoreKeys, LAMBDA k : scores[k] # Null)
  IN IF present = <<>> THEN Null
     ELSE LET best == CHOOSE p \in 1..Len(present) :
                        /\ \A q \in 1..Len(present) : FGe(scores[present[p]], scores[present[q]])
                        /\ \A q \in 1..(p - 1) : ~FGe(scores[present[q]], scores[present[p]])
          IN [key |-> present[best]]

WeakestKey(scores) ==
  LET present == SelectSeq(ScoreKeys, LAMBDA k : scores[k] # Null)
  IN IF present = <<>> THEN Null
     ELSE LET worst == CHOOSE p \in 1..Len(present) :
                         /\ \A q \in 1..Len(present) : FLe(scores[present[p]], scores[present[q]])
                         /\ \A q \in (p + 1)..Len(present) : ~FLe(scores[present[q]], scores[present[p]])
          IN [key |-> present[worst]]

ThresholdCategory(score) ==
  IF FGe(score, I(thresholds.select)) THEN "select"
  ELSE IF FGe(score, I(thresholds.good)) THEN "good"
  ELSE IF FGe(score, I(thresholds.review)) THEN "review"
  ELSE IF FGe(score, I(thresholds.maybe)) THEN "maybe"
  ELSE "reject"

classifyImage(score, scores, an) ==
  LET category == ThresholdCategory(score)
      ar == checkAutoReject(an)
      final == IF ar.shouldReject THEN "reject" ELSE category
  IN [ category |-> final,
       folder |-> folders[final],
       strongest |-> StrongestKey(scores),
       weakest |-> WeakestKey(scores),
       autoReject |-> IF ar.shouldReject THEN [reasons |-> ar.reasons] ELSE Null ]

generateIssuesList(scores, an) ==
  LET sh == an.sharpness
      hist == an.histogram
      comp == an.composition
      blurType == IF sh = Null THEN "" ELSE sh.blur.type
      sharpIssue ==
        IF FLt(scores.sharpness, I(60))
        THEN IF blurType = "motion"
             THEN <<[ type |-> "sharpness", severity |-> "high", message |-> "Motion blur detected",
                      suggestion |-> "Use faster shutter speed" ]>>
             ELSE IF blurType = "defocus"
             THEN <<[ type |-> "sharpness", severity |-> "high", message |-> "Subject out of focus",
                      suggestion |-> "Check focus point or use smaller aperture" ]>>
             ELSE <<[ type |-> "sharpness", severity |-> "medium", message |-> "Image is soft",
                      suggestion |-> "Consider increasing sharpening in post" ]>>
        ELSE <<>>
      exposureIssue ==
        IF hist # Null /\ hist.exposure.assessment = "underexposed"
        THEN <<[ type |-> "exposure", severity |-> "medium", message |-> "Underexposed",
                 suggestion |-> "Increase exposure or brighten shadows in post" ]>>
        ELSE IF hist # Null /\ hist.exposure.assessment = "overexposed"
        THEN <<[ type |-> "exposure", severity |-> "medium", message |-> "Overexposed",
                 suggestion |-> "Check for recoverable highlights" ]>>
        ELSE <<>>
      clipIssue ==
        IF /\ hist # Null
           /\ "severity" \in DOMAIN hist.clipping.highlights
           /\ hist.clipping.highlights.severity \in {"moderate", "severe"}
        THEN <<[ type |-> "clipping",
                 severity |-> IF hist.clipping.highlights.severity = "severe" THEN "high" ELSE "medium",
                 message |-> "% highlights blown",
                 percent |-> FRound(hist.clipping.highlights.clipped),
                 suggestion |-> IF FLt(hist.clipping.highlights.clipped, I(10))
                                THEN "May be recoverable" ELSE "Likely unrecoverable" ]>>
        ELSE <<>>
      horizonIssue ==
        IF comp # Null /\ comp.horizon.detected /\ ~comp.horizon.level
           /\ FGt(FAbs(comp.horizon.tilt), I(2))
        THEN <<[ type |-> "composition",
                 severity |-> IF FGt(FAbs(comp.horizon.tilt), I(5)) THEN "medium" ELSE "low",
                 message |-> "Horizon tilted", suggestion |-> "Straighten in post" ]>>
        ELSE <<>>
      noiseIssue ==
        IF FLt(scores.noise, I(50))
        THEN <<[ type |-> "noise", severity |-> "low", message |-> "High ISO may result in visible noise",
                 suggestion |-> "Apply noise reduction in post" ]>>
        ELSE <<>>
  IN sharpIssue \o exposureIssue \o clipIssue \o horizonIssue \o noiseIssue

\* const name = value; ...  the value is computed once and Body(value) is what
\* follows the declaration
With(value, Body(_)) == Body(value)

(***************************************************************************)
(* IEEE-754 double arithmetic, for the one computation whose rounding      *)
(* error decides its result (calculateKeeperProbability, part_002:321-333: *)
(* Math.round of a product that may lie one unit in the last place below a *)
(* half).  A natural number is a sequence of limbs, least significant      *)
(* first, without leading zero limbs; a double is sign * m * 2^e with m a  *)
(* natural number of at most 53 bits.                                      *)
(***************************************************************************)
LimbBase == 2^10

RECURSIVE BigOf(_)
BigOf(a) == IF a = 0 THEN <<>> ELSE <<a % LimbBase>> \o BigOf(a \div LimbBase)

RECURSIVE BigToInt(_)
BigToInt(a) == IF a = <<>> THEN 0 ELSE a[1] + LimbBase * BigToInt(Tail(a))

RECURSIVE BigTrim(_)
BigTrim(a) ==
  IF a = <<>> THEN a
  ELSE IF a[Len(a)] = 0 THEN BigTrim(SubSeq(a, 1, Len(a) - 1))
  ELSE a

RECURSIVE BigMulCarry(_, _, _)
BigMulCarry(a, c, carry) ==
  IF a = <<>> THEN BigOf(carry)
  ELSE LET v == a[1] * c + carry
       IN <<v % LimbBase>> \o BigMulCarry(Tail(a), c, v \div LimbBase)

\* a * c for 0 <= c < 2^21
BigMulSmall(a, c) == BigTrim(BigMulCarry(a, c, 0))

RECURSIVE BigDivFrom(_, _, _, _)
BigDivFrom(a, c, k, r) ==
  IF k = 0 THEN [q |-> <<>>, r |-> r]
  ELSE LET v == r * LimbBase + a[k]
           rest == BigDivFrom(a, c, k - 1, v % c)
       IN [q |-> rest.q \o <<v \div c>>, r |-> rest.r]

\* quotient and remainder of a by c, for 0 < c < 2^21
BigDivSmall(a, c) ==
  LET qr == BigDivFrom(a, c, Len(a), 0)
  IN [q |-> BigTrim(qr.q), r |-> qr.r]

RECURSIVE BigAddCarry(_, _, _)
BigAddCarry(a, b, carry) ==
  IF a = <<>> /\ b = <<>> THEN BigOf(carry)
  ELSE LET v == (IF a = <<>> THEN 0 ELSE a[1]) + (IF b = <<>> THEN 0 ELSE b[1]) + carry
       IN <<v % LimbBase>> \o BigAddCarry(IF a = <<>> THEN a ELSE Tail(a),
                                          IF b = <<>> THEN b ELSE Tail(b), v \div LimbBase)

BigAdd(a, b) == BigAddCarry(a, b, 0)

RECURSIVE BigSubBorrow(_, _, _)
BigSubBorrow(a, b, borrow) ==
  IF a = <<>> THEN <<>>
  ELSE LET v == a[1] - (IF b = <<>> THEN 0 ELSE b[1]) - borrow
       IN <<v % LimbBase>> \o BigSubBorrow(Tail(a), IF b = <<>> THEN b ELSE Tail(b),
                                           IF v < 0 THEN 1 ELSE 0)

\* a - b for a >= b
BigSub(a, b) == BigTrim(BigSubBorrow(a, b, 0))

RECURSIVE BigCmpFrom(_, _, _)
BigCmpFrom(a, b, k) ==
  IF k = 0 THEN 0
  ELSE IF a[k] # b[k] THEN Sgn(a[k] - b[k])
  ELSE BigCmpFrom(a, b, k - 1)

\* the sign of a - b
BigCmp(a, b) == IF Len(a) # Len(b) THEN Sgn(Len(a) - Len(b)) ELSE BigCmpFrom(a, b, Len(a))

\* a * 2^k
BigShl(a, k) ==
  IF a = <<>> THEN a
  ELSE [j \in 1..(k \div 10) |-> 0] \o BigMulSmall(a, 2^(k % 10))

\* floor(a / 2^k)
BigShr(a, k) ==
  IF Len(a) <= k \div 10 THEN <<>>
  ELSE BigDivSmall(SubSeq(a, k \div 10 + 1, Len(a)), 2^(k % 10)).q

RECURSIVE BitsOf(_)
BitsOf(a) == IF a = 0 THEN 0 ELSE 1 + BitsOf(a \div 2)

\* the number of bits of a
BigBitLen(a) == IF a = <<>> THEN 0 ELSE 10 * (Len(a) - 1) + BitsOf(a[Len(a)])

\* a / 2^k rounded to the nearest natural number, ties to even (k >= 1)
RoundShift(a, k) ==
  With(BigShr(a, k), LAMBDA quotient :
  With(BigCmp(BigSub(a, BigShl(quotient, k)), BigShl(<<1>>, k - 1)), LAMBDA half :
    IF half > 0 \/ (half = 0 /\ quotient # <<>> /\ (quotient[1] % 2) = 1)
    THEN BigAdd(quotient, <<1>>) ELSE quotient))

\* the double nearest to sign * m * 2^e
DblRound(neg, m, e) ==
  With(m, LAMBDA mantissa :
  With(BigBitLen(mantissa), LAMBDA bits :
    IF bits <= 53 THEN [neg |-> neg, m |-> mantissa, e |-> e]
    ELSE [neg |-> neg, m |-> RoundShift(mantissa, bits - 53), e |-> e + bits - 53]))

\* x / c for a double x and an integer 0 < c < 2^21: the quotient is taken on
\* 80 more bits, the last bit records a non-zero remainder
DblDivSmall(x, c) ==
  With(BigDivSmall(BigShl(x.m, 80), c), LAMBDA qr :
    DblRound(x.neg, BigAdd(BigMulSmall(qr.q, 2), IF qr.r > 0 THEN <<1>> ELSE <<>>), x.e - 81))

\* the double of a finite fraction (the literal 0.15, the quotient a / b)
DblOf(x) == DblDivSmall([neg |-> x.n < 0, m |-> BigOf(Abs(x.n)), e |-> 0], x.d)

\* x * c for a double x and an integer 0 <= c < 2^21
DblMulSmall(x, c) == DblRound(x.neg, BigMulSmall(x.m, c), x.e)

\* x - y
DblSub(x, y) ==
  With(IF x.e < y.e THEN x.e ELSE y.e, LAMBDA e :
  With(BigShl(x.m, x.e - e), LAMBDA mx :
  With(BigShl(y.m, y.e - e), LAMBDA my :
    IF x.neg # y.neg THEN DblRound(x.neg, BigAdd(mx, my), e)
    ELSE IF BigCmp(mx, my) >= 0 THEN DblRound(x.neg, BigSub(mx, my), e)
    ELSE DblRound(~x.neg, BigSub(my, mx), e))))

\* Math.round(x) = floor(x + 1/2), as an integer
DblMathRound(x) ==
  IF x.e >= 0 THEN (IF x.neg THEN -1 ELSE 1) * BigToInt(BigShl(x.m, x.e))
  ELSE With(BigMulSmall(x.m, 2), LAMBDA twice :
       With(BigShl(<<1>>, -x.e), LAMBDA one :
         IF ~x.neg THEN BigToInt(BigShr(BigAdd(twice, one), 1 - x.e))
         ELSE IF BigCmp(one, twice) >= 0 THEN 0
         ELSE -BigToInt(BigShr(BigAdd(BigSub(twice, one), BigSub(BigShl(<<1>>, 1 - x.e), <<1>>)),
                               1 - x.e))))

\* the doubles of the literals 0.15 and 0.05 (part_002:326 and 330)
Dbl015 == DblOf(Frac(15, 100))

Dbl005 == DblOf(Frac(5, 100))

CountSeverity(issues, sev) == Cardinality({k \in 1..Len(issues) : issues[k].severity = sev})

\* Math.round(probability * 100) of part_002:322-332 in doubles: score / 100,
\* the two subtractions and the product by 100 are each rounded to the
\* nearest double
roundedPercent(score, high, medium) ==
  With(DblDivSmall(DblOf(score), 100), LAMBDA p0 :
  With(DblSub(p0, DblMulSmall(Dbl015, high)), LAMBDA p1 :
  With(DblSub(p1, DblMulSmall(Dbl005, medium)), LAMBDA p2 :
    DblMathRound(DblMulSmall(p2, 100)))))

\* part_002:321-333.  The exact value of probability * 100 is score - 15 * high
\* - 5 * medium, and the doubles differ from it by less than 2^-40.  A score
\* of the model has a denominator below 2^31, so unless the exact value lies
\* on a half (denominator 2) it is further than 2^-32 from one and Math.round
\* of the double is Math.round of the exact value; on a half the doubles
\* decide.
calculateKeeperProbability(score, issues) ==
  IF ~IsFinite(score) THEN score
  ELSE With(CountSeverity(issues, "high"), LAMBDA high :
       With(CountSeverity(issues, "medium"), LAMBDA medium :
       With(FSub(score, I(15 * high + 5 * medium)), LAMBDA exact :
       With(IF exact.d = 2 THEN I(roundedPercent(score, high, medium)) ELSE FRound(exact),
            LAMBDA percent :
         FMax(I(0), FMin(I(1), FDiv(percent, I(100))))))))

\* part_002:27-28
ActualMode(opt) == IF opt.mode = "portrait" THEN "general" ELSE opt.mode

ActualWeights(opt) ==
  IF opt.customWeights # Null THEN opt.customWeights
  ELSE IF ActualMode(opt) \in DOMAIN weights THEN weights[ActualMode(opt)]
  ELSE weights.general

\* part_002:31-39
SubScores(an) ==
  LET comp == an.composition
      hist == an.histogram
  IN [ sharpness |-> calculateSharpnessScore_scoring(an.sharpness),
       exposure |-> calculateExposureScore_scoring(hist),
       focusAccuracy |-> calculateFocusAccuracyScore(an.sharpness, an.exif),
       composition |-> IF comp = Null THEN I(60) ELSE OrElse(comp.score.score, I(60)),
       noise |-> calculateNoiseScore(an.exif, hist),
       dynamicRange |-> IF hist = Null THEN I(60) ELSE OrElse(hist.dynamicRange.percentage, I(60)),
       horizonLevel |-> IF comp # Null /\ comp.horizon.detected
                        THEN (IF comp.horizon.level THEN I(100)
                              ELSE FMax(I(50), FSub(I(100), FMul(FAbs(comp.horizon.tilt), I(5)))))
                        ELSE Null ]

\* scores[key] for a key of the weight map; a key that is no property of scores is undefined
ScoreOf(scores, key) == IF key \in DOMAIN scores THEN scores[key] ELSE Null

\* the keys the loop at part_002:45-50 adds
CountedKeys(scores, w) == {key \in DOMAIN w : ScoreOf(scores, key) # Null}

RECURSIVE SumOver(_, _, _)
SumOver(S, f(_), acc) ==
  IF S = {} THEN acc
  ELSE LET k == CHOOSE k \in S : TRUE IN SumOver(S \ {k}, f, FAdd(acc, f(k)))

WeightedSum(scores, w) ==
  LET term(key) == FMul(scores[key], w[key])
  IN SumOver(CountedKeys(scores, w), term, I(0))

\* a variant of WeightTotal that counts the weight of every key of the weight map,
\* that is, treats a missing sub-score as zero instead of leaving it out
WeightTotal_allKeys(scores, w) ==
  LET term(key) == w[key]
  IN SumOver(DOMAIN w, term, I(0))

WeightTotal(scores, w) ==
  LET term(key) == w[key]
  IN SumOver(CountedKeys(scores, w), term, I(0))

\* part_002:52
OverallScore(scores, w) ==
  IF FGt(WeightTotal(scores, w), I(0))
  THEN FDiv(WeightedSum(scores, w), WeightTotal(scores, w))
  ELSE I(0)

calculateScores(an, opt) ==
  LET actualWeights == ActualWeights(opt)
      scores == SubScores(an)
      overallScore == OverallScore(scores, actualWeights)
      issues == generateIssuesList(scores, an)
  IN [ scores |-> scores,
       overall |-> FRound(overallScore),
       rating |-> calculateStarRating(overallScore),
       classification |-> classifyImage(overallScore, scores, an),
       issues |-> issues,
       keeperProbability |-> calculateKeeperProbability(overallScore, issues),
       mode |-> ActualMode(opt),
       weights |-> actualWeights ]

(***************************************************************************)
(* The neutral results (createEmptyAnalysis of each analyzer)              *)
(***************************************************************************)
createEmptyAnalysis_sharpness ==
  [ overall |-> [variance |-> I(0), score |-> I(0), assessment |-> "unknown"],
    regions |-> [grid |-> <<>>, max |-> I(0), min |-> I(0), variance |-> I(0)],
    blur |-> [type |-> "unknown", severity |-> I(0), direction |-> Null],
    edges |-> [averageStrength |-> I(0), strongEdgeRatio |-> I(0), assessment |-> "unknown"],
    focusPlane |-> [position |-> "unknown", sharpestRegions |-> <<>>, center |-> [x |-> I(0), y |-> I(0)]] ]

createEmptyAnalysis_histogram ==
  [ histogram |-> Null,
    stats |-> Null,
    exposure |-> [meanBrightness |-> I(0), assessment |-> "unknown", deviation |-> I(1)],
    clipping |-> [ shadows |-> [clipped |-> I(0)], highlights |-> [clipped |-> I(0)],
                   totalClipped |-> I(0), recoverable |-> TRUE ],
    dynamicRange |-> [range |-> 0, percentage |-> I(0), assessment |-> "unknown"],
    contrast |-> [standardDeviation |-> I(0), level |-> "unknown"],
    score |-> I(0) ]

createEmptyAnalysis_composition ==
  [ ruleOfThirds |-> [alignment |-> I(0), assessment |-> "unknown"],
    balance |-> [overall |-> I(0), type |-> "unknown"],
    horizon |-> [detected |-> FALSE],
    leadingLines |-> [detected |-> FALSE],
    weightDistribution |-> [centered |-> FALSE],
    symmetry |-> [overall |-> I(0), type |-> "unknown"],
    score |-> [score |-> I(0), assessment |-> "unknown"] ]

(***************************************************************************)
(* calculateScores: the arguments the specifications draw                  *)
(***************************************************************************)
\* a sharpness result as calculateScores reads it
Sh(score, type, sev, regions) ==
  [ overall |-> [score |-> I(score)],
    blur |-> [type |-> type, severity |-> sev],
    focusPlane |-> [sharpestRegions |-> regions] ]

\* getSeverity of histogramAnalyzer.js:230-236
getSeverity(percentage) ==
  IF FLt(percentage, I(1)) THEN "none"
  ELSE IF FLt(percentage, I(5)) THEN "minor"
  ELSE IF FLt(percentage, I(15)) THEN "moderate"
  ELSE IF FLt(percentage, I(30)) THEN "severe"
  ELSE "critical"

\* a histogram result as calculateScores reads it; percentages in hundredths
Hi(score, assessment, shadowZone, hl, sd, dr) ==
  [ score |-> I(score),
    exposure |-> [assessment |-> assessment, zones |-> [shadows |-> I(shadowZone)]],
    clipping |-> [ highlights |-> [clipped |-> Frac(hl, 100), severity |-> getSeverity(Frac(hl, 100))],
                   shadows |-> [clipped |-> Frac(sd, 100), severity |-> getSeverity(Frac(sd, 100))] ],
    dynamicRange |-> [percentage |-> I(dr)] ]

\* a composition result as calculateScores reads it; tilt in tenths of a degree
Co(score, detected, tilt10) ==
  [ score |-> [score |-> I(score)],
    horizon |-> IF detected
                THEN [detected |-> TRUE, level |-> Abs(tilt10) < 10, tilt |-> Frac(tilt10, 10)]
                ELSE [detected |-> FALSE] ]

Ex(iso, continuous) == [exposure |-> [iso |-> iso], focus |-> [continuous |-> continuous]]

Opt(mode) == [mode |-> mode, customWeights |-> Null]

SharpnessInputs ==
  {Null, createEmptyAnalysis_sharpness}
  \cup {Sh(s, "none", I(0), <<"center", "top", "left">>) : s \in {40, 66, 69, 100}}
  \cup {Sh(95, t, Frac(sev, 100), <<"top">>) : t \in {"motion", "defocus", "soft"}, sev \in {84, 85}}
  \cup {Sh(40, "motion", Frac(50, 100), <<>>)}

HistogramInputs ==
  {Null, createEmptyAnalysis_histogram}
  \cup {Hi(e, "well-exposed", 10, 0, 0, 64) : e \in {60, 100}}
  \cup {Hi(90, "well-exposed", 10, hl, sd, 80) : hl \in {0, 2500}, sd \in {2499, 2500}}
  \cup {Hi(30, "underexposed", 40, 1200, 0, 0)}

CompositionInputs ==
  { Null, createEmptyAnalysis_composition, Co(73, FALSE, 0), Co(100, TRUE, 0),
    Co(73, TRUE, 13), Co(50, TRUE, -120) }

ExifInputs == {Null, Ex(100, FALSE), Ex(3200, TRUE)}

OptionInputs ==
  { Opt("general"), Opt("landscape"), Opt("portrait"),
    [mode |-> "general", customWeights |-> [horizonLevel |-> I(1)]],
    [mode |-> "general", customWeights |-> [sharpness |-> Frac(1, 2), contrast |-> Frac(1, 2)]] }

AnalysesInputs ==
  { [exif |-> e, histogram |-> h, sharpness |-> s, composition |-> c] :
      e \in ExifInputs, h \in HistogramInputs, s \in SharpnessInputs, c \in CompositionInputs }

\* second calls: results near the rating thresholds and at the ends of the scale
ReferenceInputs ==
  { [exif |-> Ex(100, FALSE), histogram |-> Hi(e, "well-exposed", 10, 0, 0, 64),
     sharpness |-> Sh(s, "none", I(0), <<"center">>), composition |-> Co(73, FALSE, 0)] :
      e \in {60, 100}, s \in {66, 69} }

(***************************************************************************)
(* calculateScores as a state machine: the caller makes two calls          *)
(***************************************************************************)
IdleBatch ==
  /\ filePaths = <<>> /\ concurrency = 0 /\ analysisOptions = Null /\ world = <<>>
  /\ i = 0 /\ batch = {}
  /\ task = <<>> /\ results = <<>> /\ completed = 0 /\ progress = <<>> /\ run = "idle"

IdleEngines ==
  /\ imageBuffer = Null /\ sharpness = Null /\ histogram = Null /\ composition = Null

IdleScore == analyses = <<>> /\ options = <<>> /\ scoring = <<>>

IdleOrganizer ==
  /\ disk = Null /\ diskBefore = Null /\ organized = Null /\ restored = Null
  /\ duplicates = Null /\ removed = Null /\ bursts = Null

InitScore ==
  /\ \E a1 \in AnalysesInputs, a2 \in ReferenceInputs : analyses = <<a1, a2>>
  /\ \E o1 \in OptionInputs : options = <<o1, Opt("general")>>
  /\ scoring = <<>>
  /\ IdleBatch
  /\ IdleEngines
  /\ IdleOrganizer

CalculateScores ==
  /\ Len(scoring) < Len(analyses)
  /\ scoring' = Append(scoring, calculateScores(analyses[Len(scoring) + 1], options[Len(scoring) + 1]))
  /\ UNCHANGED <<analyses, options>>
  /\ UNCHANGED batchVars
  /\ UNCHANGED engineVars
  /\ UNCHANGED organizerVars

NextScore == CalculateScores

SpecScore == InitScore /\ [][NextScore]_vars

(***************************************************************************)
(* Claims about calculateScores                                            *)
(***************************************************************************)
Returned == 1..Len(scoring)

\* C1: for every input the returned overall is in [0,100], the rating is in 1..5, and
\* the rating is non-decreasing in the returned overall: for any two results a and b,
\* overall_a <= overall_b implies rating_a <= rating_b.
C1_RatingNonDecreasingInOverall ==
  /\ \A k \in Returned :
       /\ FGe(scoring[k].overall, I(0))
       /\ FLe(scoring[k].overall, I(100))
       /\ scoring[k].rating \in 1..5
  /\ \A a \in Returned, b \in Returned :
       FLe(scoring[a].overall, scoring[b].overall) => scoring[a].rating <= scoring[b].rating

\* the four auto-reject conditions, as C2 words them
C2_MotionBlur(an) ==
  /\ an.sharpness # Null
  /\ an.sharpness.blur.type = "motion"
  /\ an.sharpness.blur.severity.n * 100 >= 85 * an.sharpness.blur.severity.d

C2_Defocus(an) ==
  /\ an.sharpness # Null
  /\ an.sharpness.blur.type = "defocus"
  /\ an.sharpness.blur.severity.n * 100 >= 85 * an.sharpness.blur.severity.d

C2_Blown(an) ==
  /\ an.histogram # Null
  /\ an.histogram.clipping.highlights.clipped.n >= 25 * an.histogram.clipping.highlights.clipped.d

C2_Crushed(an) ==
  /\ an.histogram # Null
  /\ an.histogram.clipping.shadows.clipped.n >= 25 * an.histogram.clipping.shadows.clipped.d

C2_Reasons(an) ==
  (IF C2_MotionBlur(an) THEN {"severe-motion-blur"} ELSE {})
  \cup (IF C2_Defocus(an) THEN {"severely-out-of-focus"} ELSE {})
  \cup (IF C2_Blown(an) THEN {"blown-highlights"} ELSE {})
  \cup (IF C2_Crushed(an) THEN {"crushed-shadows"} ELSE {})

\* the category on the row of the star rating, which the same thresholds give
C2_CategoryOfRating(r) ==
  IF r = 5 THEN "select" ELSE IF r = 4 THEN "good" ELSE IF r = 3 THEN "review"
  ELSE IF r = 2 THEN "maybe" ELSE "reject"

RECURSIVE C3_Sum(_, _, _, _)
C3_Sum(f(_), scores, w, p) ==
  IF p > Len(ScoreKeys) THEN I(0)
  ELSE LET key == ScoreKeys[p]
           rest == C3_Sum(f, scores, w, p + 1)
       IN IF key \in DOMAIN w /\ scores[key] # Null THEN FAdd(f(key), rest) ELSE rest

C3_Expected(r) ==
  LET num(key) == FMul(r.scores[key], r.weights[key])
      den(key) == r.weights[key]
      total == C3_Sum(den, r.scores, r.weights, 1)
  IN IF total = I(0) THEN I(0)
     ELSE FDiv(C3_Sum(num, r.scores, r.weights, 1), total)

\* C3: the overall score before rounding is sum(score_k * w_k) / sum(w_k) over exactly
\* the keys of the active weight map whose sub-score is neither null nor undefined, and
\* 0 when no key qualifies: the returned overall is that value rounded and the rating
\* is the one the thresholds give for it.
C3_WeightedAverageOverPresentKeys ==
  \A k \in Returned :
    LET r == scoring[k]
        e == C3_Expected(r)
    IN /\ r.overall = FRound(e)
       /\ (r.rating = 5) = (e.n >= 72 * e.d)
       /\ (r.rating >= 4) = (e.n >= 58 * e.d)
       /\ (r.rating >= 3) = (e.n >= 45 * e.d)
       /\ (r.rating >= 2) = (e.n >= 30 * e.d)

\* C3 witness: a landscape result without a detected horizon (horizonLevel null, and
\* focusAccuracy no key of the weight map) whose overall is the average of the other five
C3_Witness ==
  \E k \in Returned :
    /\ scoring[k].mode = "landscape"
    /\ scoring[k].weights = weights.landscape
    /\ scoring[k].scores.horizonLevel = Null
    /\ scoring[k].scores.focusAccuracy = I(85)
    /\ scoring[k].scores.sharpness = I(66)
    /\ scoring[k].overall = I(78)

(***************************************************************************)
(* Image buffers and what sharp decodes from them.                         *)
(*                                                                         *)
(* An image buffer is an encoded picture.  The analyzers hand it to sharp  *)
(* and read back a raster (sharpnessAnalyzer.js:28-32,                     *)
(* compositionAnalyzer.js:19-23, histogramAnalyzer.js:66-69); sharp        *)
(* rejects when the buffer cannot be decoded.  The rasters of the model    *)
(* are a few dozen pixels wide instead of the 600 or 800 of sharp's        *)
(* resize; the analyzers' code does not depend on the size.  The           *)
(* greyscale raster holds the rounded luma of each pixel.                  *)
(***************************************************************************)
Picture(kind, a, b, pos, w, h, ch) ==
  [kind |-> kind, a |-> a, b |-> b, pos |-> pos, width |-> w, height |-> h, channels |-> ch]

Grey(v) == <<v, v, v>>

\* the colour <<r, g, b>> of pixel (x, y) of the picture
PixelRGB(img, x, y) ==
  CASE img.kind = "uniform" -> img.a
    [] img.kind = "vsplit"  -> IF x < img.pos THEN img.a ELSE img.b
    [] img.kind = "hsplit"  -> IF y < img.pos THEN img.a ELSE img.b
    [] img.kind = "tilted"  -> IF 4 * y < 4 * img.pos + x THEN img.a ELSE img.b
    [] img.kind = "dot"     -> IF x = img.pos /\ y = img.pos THEN img.b ELSE img.a
    [] img.kind = "ramp"    -> Grey(img.a[1] + img.pos * x)
    [] OTHER                -> img.a

\* Math.round(0.299 * r + 0.587 * g + 0.114 * b)
Luma(c) == (299 * c[1] + 587 * c[2] + 114 * c[3] + 500) \div 1000

\* an array held in memory: each element is computed once, when the array is
\* built, and not again at each read
Stored(array) == array \o <<>>

Threw == [threw |-> TRUE]

Ok(v) == [threw |-> FALSE, value |-> v]

\* sharp(buffer)....grayscale().raw().toBuffer({resolveWithObject: true})
sharpGrayscaleRaw(buffer) ==
  IF buffer.kind = "corrupt" THEN Threw
  ELSE LET w == buffer.width
           h == buffer.height
       IN Ok([ data |-> Stored([j \in 1..(w * h) |->
                                  Luma(PixelRGB(buffer, (j - 1) % w, (j - 1) \div w))]),
               info |-> [width |-> w, height |-> h] ])

\* sharp(buffer)....raw().toBuffer({resolveWithObject: true}): the
\* interleaved samples; a greyscale file has one channel, an alpha channel
\* is opaque
sharpRaw(buffer) ==
  IF buffer.kind = "corrupt" THEN Threw
  ELSE LET w == buffer.width
           h == buffer.height
           ch == buffer.channels
           px(p) == PixelRGB(buffer, p % w, p \div w)
       IN Ok([ data |-> Stored([j \in 1..(w * h * ch) |->
                                  LET p == (j - 1) \div ch
                                      k == (j - 1) % ch
                                  IN IF ch = 1 THEN Luma(px(p))
                                     ELSE IF k < 3 THEN px(p)[k + 1] ELSE 255]),
               info |-> [width |-> w, height |-> h, channels |-> ch] ])

\* data[idx] of a typed array
At(data, idx) == data[idx + 1]

\* f(lo) + ... + f(hi).  Integer addition is associative, so the terms are
\* added in halves, which keeps the evaluation shallow.
RECURSIVE SumRange(_, _, _)
SumRange(f(_), lo, hi) ==
  IF lo > hi THEN 0
  ELSE IF lo = hi THEN f(lo)
  ELSE LET mid == (lo + hi) \div 2
       IN SumRange(f, lo, mid) + SumRange(f, mid + 1, hi)

\* the two nested loops  for (y = y1; y < y2; y++) for (x = x1; x < x2; x++)
\* accumulating f(x, y)
SumLoop(f(_, _), x1, x2, y1, y2) ==
  LET span == x2 - x1
      term(k) == f(x1 + (k % span), y1 + (k \div span))
  IN IF x2 > x1 /\ y2 > y1 THEN SumRange(term, 0, span * (y2 - y1) - 1) ELSE 0

\* the number of iterations of those loops
LoopCount(x1, x2, y1, y2) == IF x2 > x1 /\ y2 > y1 THEN (x2 - x1) * (y2 - y1) ELSE 0

\* floor of the square root of a natural number
RECURSIVE SqrtSearch(_, _, _)
SqrtSearch(n, lo, hi) ==
  IF lo >= hi THEN lo
  ELSE LET mid == (lo + hi + 1) \div 2
       IN IF mid * mid <= n THEN SqrtSearch(n, mid, hi) ELSE SqrtSearch(n, lo, mid - 1)

ISqrt(n) == SqrtSearch(n, 0, 46340)

\* Math.atan in hundredths of a degree for a slope given in thousandths,
\* |slope| <= 1: the polynomial x*45 + x*(1-|x|)*(14.02 + 3.80*|x|), which is
\* within 0.1 degree of the arc tangent
AtanUnit(s) ==
  LET t == (s * (1000 - Abs(s))) \div 1000
      c == 1402 + (380 * Abs(s)) \div 1000
  IN (4500 * s + t * c + 500) \div 1000

\* Math.atan2(gy, gx) * (180 / Math.PI) in hundredths of a degree
Atan2Deg(gy, gx) ==
  IF gx = 0 /\ gy = 0 THEN 0
  ELSE IF Abs(gy) <= Abs(gx)
       THEN LET a == AtanUnit((1000 * gy) \div gx)
            IN IF gx > 0 THEN a ELSE IF gy >= 0 THEN a + 18000 ELSE a - 18000
       ELSE LET a == AtanUnit((1000 * gx) \div gy)
            IN IF gy > 0 THEN 9000 - a ELSE -9000 - a

(***************************************************************************)
(* sharpnessAnalyzer.js                                                    *)
(***************************************************************************)
gridSize == 5

sampleCount_gradient == 20

calculateLaplacianVariance(data, width, height) ==
  LET absLaplacian(x, y) ==
        LET idx == y * width + x
        IN Abs(At(data, idx - width) + At(data, idx - 1) - 4 * At(data, idx)
               + At(data, idx + 1) + At(data, idx + width))
      square(x, y) == absLaplacian(x, y) * absLaplacian(x, y)
      count == LoopCount(1, width - 1, 1, height - 1)
  IN With(SumLoop(absLaplacian, 1, width - 1, 1, height - 1), LAMBDA sum :
     With(SumLoop(square, 1, width - 1, 1, height - 1), LAMBDA sumSq :
       \* (sumSq / count) - (sum / count) * (sum / count)
       Frac(sumSq * count - sum * sum, count * count)))

extractRegion(data, stride, startX, startY, regionWidth, regionHeight) ==
  Stored([j \in 1..(regionWidth * regionHeight) |->
            At(data, (startY + (j - 1) \div regionWidth) * stride
                     + (startX + ((j - 1) % regionWidth)))])

getRegionPosition(x, y, grid) ==
  LET midPoint == grid \div 2
      vertical == IF y < midPoint THEN "top" ELSE IF y > midPoint THEN "bottom" ELSE "middle"
      horizontal == IF x < midPoint THEN "left" ELSE IF x > midPoint THEN "right" ELSE "center"
  IN IF vertical = "middle" /\ horizontal = "center" THEN "center"
     ELSE IF vertical = "middle" THEN horizontal
     ELSE IF horizontal = "center" THEN vertical
     ELSE vertical \o "-" \o horizontal

\* Math.max / Math.min folded over seq[lo..hi], in halves
RECURSIVE MaxRange(_, _, _)
MaxRange(seq, lo, hi) ==
  IF lo = hi THEN seq[lo]
  ELSE LET mid == (lo + hi) \div 2
       IN FMax(MaxRange(seq, lo, mid), MaxRange(seq, mid + 1, hi))

RECURSIVE MinRange(_, _, _)
MinRange(seq, lo, hi) ==
  IF lo = hi THEN seq[lo]
  ELSE LET mid == (lo + hi) \div 2
       IN FMin(MinRange(seq, lo, mid), MinRange(seq, mid + 1, hi))

analyzeRegions(data, width, height, grid) ==
  LET regionWidth == width \div grid
      regionHeight == height \div grid
  IN \* region k (row by row): the unrounded Laplacian variance
     With(Stored([k \in 1..(grid * grid) |->
            calculateLaplacianVariance(
              extractRegion(data, width, ((k - 1) % grid) * regionWidth,
                            ((k - 1) \div grid) * regionHeight, regionWidth, regionHeight),
              regionWidth, regionHeight)]), LAMBDA raw :
     With(FMax(I(0), MaxRange(raw, 1, Len(raw))), LAMBDA maxSharpness :
     With(FMin(Frac(1, 0), MinRange(raw, 1, Len(raw))), LAMBDA minSharpness :
     With(OrElse(FSub(maxSharpness, minSharpness), I(1)), LAMBDA range :
       [ grid |-> Stored([k \in 1..(grid * grid) |->
                    With(FRoundTo(raw[k], 100), LAMBDA rounded :
                      [ x |-> (k - 1) % grid,
                        y |-> (k - 1) \div grid,
                        sharpness |-> rounded,
                        position |-> getRegionPosition((k - 1) % grid, (k - 1) \div grid, grid),
                        normalizedSharpness |->
                          FRound(FMul(FDiv(FSub(rounded, minSharpness), range), I(100))) ])]),
         max |-> FRoundTo(maxSharpness, 100),
         min |-> FRoundTo(minSharpness, 100),
         variance |-> FRoundTo(FSub(maxSharpness, minSharpness), 100) ]))))

calculateDirectionalGradient(data, width, height, direction) ==
  LET gradient(x, y) ==
        LET idx == y * width + x
        IN IF direction = "horizontal"
           THEN Abs(At(data, idx + 1) - At(data, idx - 1))
           ELSE Abs(At(data, idx + width) - At(data, idx - width))
  IN Frac(SumLoop(gradient, 1, width - 1, 1, height - 1), LoopCount(1, width - 1, 1, height - 1))

\* Math.random() is the sequence of draws rnd: draw k of the x's is
\* rnd.x0 + k * rnd.dx (mod the range), likewise for the y's.
\* cos and sin of atan2(gy, gx) are gx and gy over the gradient's length (1 and
\* 0 for a zero gradient), kept in thousandths; the result R in thousandths.
analyzeGradientConsistency(data, width, height, rnd) ==
  LET px(k) == ((rnd.x0 + k * rnd.dx) % (width - 2)) + 1
      py(k) == ((rnd.y0 + k * rnd.dy) % (height - 2)) + 1
      gx(k) == LET idx == py(k) * width + px(k) IN At(data, idx + 1) - At(data, idx - 1)
      gy(k) == LET idx == py(k) * width + px(k) IN At(data, idx + width) - At(data, idx - width)
      len100(k) == ISqrt((gx(k) * gx(k) + gy(k) * gy(k)) * 10000)
      cos(k) == IF len100(k) = 0 THEN 1000 ELSE (gx(k) * 100000) \div len100(k)
      sin(k) == IF len100(k) = 0 THEN 0 ELSE (gy(k) * 100000) \div len100(k)
  IN With(SumRange(sin, 0, sampleCount_gradient - 1), LAMBDA sumSin :
     With(SumRange(cos, 0, sampleCount_gradient - 1), LAMBDA sumCos :
       Frac(ISqrt(sumSin * sumSin + sumCos * sumCos), 1000 * sampleCount_gradient)))

\* a variant of blurFound that tests for defocus before it tests for motion
blurFound_defocusFirst(overallSharpness, gradientRatio, gradientConsistency, avgGradient) ==
  IF FGt(overallSharpness, I(100)) \/ FGt(avgGradient, I(20))
  THEN [type |-> "none", severity |-> I(0), direction |-> Null]
  ELSE IF /\ FLt(overallSharpness, I(40))
          /\ FGt(gradientConsistency, Frac(9, 10))
          /\ FLt(avgGradient, I(12))
  THEN [ type |-> "defocus",
         severity |-> FMax(I(0), FMin(I(1), FSub(I(1), FDiv(overallSharpness, I(40))))),
         direction |-> Null ]
  ELSE IF /\ FGt(FAbs(FSub(gradientRatio, I(1))), Frac(1, 2))
          /\ FLt(overallSharpness, I(50))
          /\ FLt(avgGradient, I(15))
  THEN [ type |-> "motion",
         severity |-> FMax(I(0), FMin(I(1), FSub(I(1), FDiv(overallSharpness, I(50))))),
         direction |-> IF FGt(gradientRatio, I(1)) THEN "horizontal" ELSE "vertical" ]
  ELSE IF FLt(overallSharpness, I(80))
  THEN [type |-> "soft", severity |-> Frac(2, 10), direction |-> Null]
  ELSE [type |-> "none", severity |-> I(0), direction |-> Null]

\* the branches of detectBlurType, sharpnessAnalyzer.js:213-244
blurFound(overallSharpness, gradientRatio, gradientConsistency, avgGradient) ==
  IF FGt(overallSharpness, I(100)) \/ FGt(avgGradient, I(20))
  THEN [type |-> "none", severity |-> I(0), direction |-> Null]
  ELSE IF /\ FGt(FAbs(FSub(gradientRatio, I(1))), Frac(1, 2))
          /\ FLt(overallSharpness, I(50))
          /\ FLt(avgGradient, I(15))
  THEN [ type |-> "motion",
         severity |-> FMax(I(0), FMin(I(1), FSub(I(1), FDiv(overallSharpness, I(50))))),
         direction |-> IF FGt(gradientRatio, I(1)) THEN "horizontal" ELSE "vertical" ]
  ELSE IF /\ FLt(overallSharpness, I(40))
          /\ FGt(gradientConsistency, Frac(9, 10))
          /\ FLt(avgGradient, I(12))
  THEN [ type |-> "defocus",
         severity |-> FMax(I(0), FMin(I(1), FSub(I(1), FDiv(overallSharpness, I(40))))),
         direction |-> Null ]
  ELSE IF FLt(overallSharpness, I(80))
  THEN [type |-> "soft", severity |-> Frac(2, 10), direction |-> Null]
  ELSE [type |-> "none", severity |-> I(0), direction |-> Null]

detectBlurType(data, width, height, overallSharpness, rnd) ==
  With(calculateDirectionalGradient(data, width, height, "horizontal"),
       LAMBDA horizontalGradient :
  With(calculateDirectionalGradient(data, width, height, "vertical"), LAMBDA verticalGradient :
  With(FDiv(horizontalGradient, OrElse(verticalGradient, I(1))), LAMBDA gradientRatio :
  With(analyzeGradientConsistency(data, width, height, rnd), LAMBDA gradientConsistency :
  With(FDiv(FAdd(horizontalGradient, verticalGradient), I(2)), LAMBDA avgGradient :
  With(blurFound(overallSharpness, gradientRatio, gradientConsistency, avgGradient),
       LAMBDA found :
    [ type |-> found.type,
      severity |-> FMin(I(1), FMax(I(0), found.severity)),
      direction |-> found.direction,
      metrics |-> [ horizontalGradient |-> FRound(horizontalGradient),
                    verticalGradient |-> FRound(verticalGradient),
                    gradientRatio |-> FRoundTo(gradientRatio, 100),
                    consistency |-> FRoundTo(gradientConsistency, 100),
                    avgGradient |-> FRound(avgGradient) ] ]))))))

\* Sobel magnitudes are kept in tenths (the square root is rounded down to a
\* tenth); the comparisons with 100 and 30 are made on the squares
analyzeEdges(data, width, height) ==
  LET gx(x, y) ==
        LET idx == y * width + x
        IN - At(data, idx - width - 1) + At(data, idx - width + 1)
           - 2 * At(data, idx - 1) + 2 * At(data, idx + 1)
           - At(data, idx + width - 1) + At(data, idx + width + 1)
      gy(x, y) ==
        LET idx == y * width + x
        IN - At(data, idx - width - 1) - 2 * At(data, idx - width) - At(data, idx - width + 1)
           + At(data, idx + width - 1) + 2 * At(data, idx + width) + At(data, idx + width + 1)
      squared(x, y) == gx(x, y) * gx(x, y) + gy(x, y) * gy(x, y)
      magnitude10(x, y) == ISqrt(squared(x, y) * 100)
      strong(x, y) == IF squared(x, y) > 100 * 100 THEN 1 ELSE 0
      count == LoopCount(1, width - 1, 1, height - 1)
  IN With(SumLoop(magnitude10, 1, width - 1, 1, height - 1), LAMBDA edgeSum10 :
     With(SumLoop(strong, 1, width - 1, 1, height - 1), LAMBDA strongEdges :
     With(Frac(edgeSum10, 10 * count), LAMBDA avgEdgeStrength :
     With(Frac(strongEdges, count), LAMBDA strongEdgeRatio :
       [ averageStrength |-> FRound(avgEdgeStrength),
         strongEdgeRatio |-> FMul(FRoundTo(strongEdgeRatio, 10000), I(100)),
         assessment |-> IF FGt(avgEdgeStrength, I(50)) THEN "strong"
                        ELSE IF FGt(avgEdgeStrength, I(25)) THEN "moderate" ELSE "weak" ]))))

\* [...regions].sort((a, b) => b.sharpness - a.sharpness).slice(0, n): the sort
\* is stable, so among equals the earlier region comes first
RECURSIVE Sharpest(_, _)
Sharpest(regions, n) ==
  IF n = 0 \/ regions = <<>> THEN <<>>
  ELSE With(CHOOSE j \in 1..Len(regions) :
              /\ \A m \in 1..Len(regions) : ~FGt(regions[m].sharpness, regions[j].sharpness)
              /\ \A m \in 1..(j - 1) : FGt(regions[j].sharpness, regions[m].sharpness),
            LAMBDA first :
         <<regions[first]>>
           \o Sharpest(Stored([m \in 1..(Len(regions) - 1) |->
                                 IF m < first THEN regions[m] ELSE regions[m + 1]]), n - 1))

RECURSIVE SumRegions(_, _, _)
SumRegions(f(_), seq, k) ==
  IF k > Len(seq) THEN I(0) ELSE FAdd(f(seq[k]), SumRegions(f, seq, k + 1))

\* the position branches of determineFocusPlane, sharpnessAnalyzer.js:390-400
focusPosition(centerX, centerY, midPoint) ==
  IF /\ FLt(FAbs(FSub(centerX, midPoint)), Frac(7, 10))
     /\ FLt(FAbs(FSub(centerY, midPoint)), Frac(7, 10))
  THEN "center"
  ELSE IF FLt(centerY, FSub(midPoint, Frac(1, 2)))
  THEN (IF FLt(centerX, midPoint) THEN "top-left"
        ELSE IF FGt(centerX, midPoint) THEN "top-right" ELSE "top")
  ELSE IF FGt(centerY, FAdd(midPoint, Frac(1, 2)))
  THEN (IF FLt(centerX, midPoint) THEN "bottom-left"
        ELSE IF FGt(centerX, midPoint) THEN "bottom-right" ELSE "bottom")
  ELSE (IF FLt(centerX, midPoint) THEN "left" ELSE "right")

determineFocusPlane(regionAnalysis) ==
  LET regions == regionAnalysis.grid
      wx(region) == FMul(I(region.x), region.sharpness)
      wy(region) == FMul(I(region.y), region.sharpness)
      w(region) == region.sharpness
      midPoint == Frac(ISqrt(Len(regions)) - 1, 2)
  IN With(Sharpest(regions, 5), LAMBDA sharpest :
     With(SumRegions(w, sharpest, 1), LAMBDA totalWeight :
     With(FDiv(SumRegions(wx, sharpest, 1), totalWeight), LAMBDA centerX :
     With(FDiv(SumRegions(wy, sharpest, 1), totalWeight), LAMBDA centerY :
       [ position |-> focusPosition(centerX, centerY, midPoint),
         sharpestRegions |-> Stored([k \in 1..Len(sharpest) |-> sharpest[k].position]),
         center |-> [x |-> FRoundTo(centerX, 100), y |-> FRoundTo(centerY, 100)] ]))))

\* a sharpness score taken from the Laplacian variance alone
calculateSharpnessScore_varianceOnly(overallSharpness, blurAnalysis, edgeAnalysis, focusPlane) ==
  FMax(I(0), FMin(I(100), FRound(FDiv(overallSharpness, I(10)))))

\* a variant of calculateSharpnessScore whose motion penalty is twice as steep
calculateSharpnessScore_steepPenalty(overallSharpness, blurAnalysis, edgeAnalysis, focusPlane) ==
  LET edgeStrength == OrElse(edgeAnalysis.averageStrength, I(0))
      strongEdgeRatio == OrElse(edgeAnalysis.strongEdgeRatio, I(0))
      part(base, from, span, gain) ==
        FAdd(I(base), FMul(FDiv(FSub(edgeStrength, I(from)), I(span)), I(gain)))
      edgeScore ==
        IF FGt(edgeStrength, I(80))
        THEN FAdd(I(90), FMin(I(10), FDiv(FSub(edgeStrength, I(80)), I(4))))
        ELSE IF FGt(edgeStrength, I(60)) THEN part(78, 60, 20, 12)
        ELSE IF FGt(edgeStrength, I(40)) THEN part(65, 40, 20, 13)
        ELSE IF FGt(edgeStrength, I(25)) THEN part(52, 25, 15, 13)
        ELSE IF FGt(edgeStrength, I(15)) THEN part(40, 15, 10, 12)
        ELSE part(30, 0, 15, 10)
      ratioBoost == IF FGt(strongEdgeRatio, I(5)) THEN I(5)
                    ELSE IF FGt(strongEdgeRatio, I(2)) THEN I(3) ELSE I(0)
      varianceBoost == IF FGt(overallSharpness, I(500)) THEN I(3)
                       ELSE IF FGt(overallSharpness, I(300)) THEN I(2) ELSE I(0)
      penalty ==
        IF blurAnalysis.type = "motion" /\ FGt(blurAnalysis.severity, Frac(6, 10))
        THEN FMul(FSub(blurAnalysis.severity, Frac(6, 10)), I(50))
        ELSE IF blurAnalysis.type = "defocus" /\ FGt(blurAnalysis.severity, Frac(6, 10))
        THEN FMul(FSub(blurAnalysis.severity, Frac(6, 10)), I(20))
        ELSE I(0)
      bonus == IF focusPlane.position = "center" THEN I(2) ELSE I(0)
      score == FAdd(FSub(FAdd(FAdd(edgeScore, ratioBoost), varianceBoost), penalty), bonus)
  IN FMax(I(0), FMin(I(100), FRound(score)))

calculateSharpnessScore_sharpness(overallSharpness, blurAnalysis, edgeAnalysis, focusPlane) ==
  LET edgeStrength == OrElse(edgeAnalysis.averageStrength, I(0))
      strongEdgeRatio == OrElse(edgeAnalysis.strongEdgeRatio, I(0))
      part(base, from, span, gain) ==
        FAdd(I(base), FMul(FDiv(FSub(edgeStrength, I(from)), I(span)), I(gain)))
      edgeScore ==
        IF FGt(edgeStrength, I(80))
        THEN FAdd(I(90), FMin(I(10), FDiv(FSub(edgeStrength, I(80)), I(4))))
        ELSE IF FGt(edgeStrength, I(60)) THEN part(78, 60, 20, 12)
        ELSE IF FGt(edgeStrength, I(40)) THEN part(65, 40, 20, 13)
        ELSE IF FGt(edgeStrength, I(25)) THEN part(52, 25, 15, 13)
        ELSE IF FGt(edgeStrength, I(15)) THEN part(40, 15, 10, 12)
        ELSE part(30, 0, 15, 10)
      ratioBoost == IF FGt(strongEdgeRatio, I(5)) THEN I(5)
                    ELSE IF FGt(strongEdgeRatio, I(2)) THEN I(3) ELSE I(0)
      varianceBoost == IF FGt(overallSharpness, I(500)) THEN I(3)
                       ELSE IF FGt(overallSharpness, I(300)) THEN I(2) ELSE I(0)
      penalty ==
        IF blurAnalysis.type = "motion" /\ FGt(blurAnalysis.severity, Frac(6, 10))
        THEN FMul(FSub(blurAnalysis.severity, Frac(6, 10)), I(25))
        ELSE IF blurAnalysis.type = "defocus" /\ FGt(blurAnalysis.severity, Frac(6, 10))
        THEN FMul(FSub(blurAnalysis.severity, Frac(6, 10)), I(20))
        ELSE I(0)
      bonus == IF focusPlane.position = "center" THEN I(2) ELSE I(0)
      score == FAdd(FSub(FAdd(FAdd(edgeScore, ratioBoost), varianceBoost), penalty), bonus)
  IN FMax(I(0), FMin(I(100), FRound(score)))

getSharpnessAssessment(score) ==
  IF FGe(score, I(90)) THEN "tack-sharp"
  ELSE IF FGe(score, I(75)) THEN "sharp"
  ELSE IF FGe(score, I(60)) THEN "acceptable"
  ELSE IF FGe(score, I(40)) THEN "soft"
  ELSE IF FGe(score, I(20)) THEN "very-soft"
  ELSE "unusable"

\* the body of the try block of analyzeSharpness
analyzeSharpness_try(buffer, rnd) ==
  With(sharpGrayscaleRaw(buffer), LAMBDA decoded :
    IF decoded.threw THEN Threw
    ELSE
      With(decoded.value.data, LAMBDA data :
      With(decoded.value.info, LAMBDA info :
      With(calculateLaplacianVariance(data, info.width, info.height), LAMBDA overallSharpness :
      With(analyzeRegions(data, info.width, info.height, gridSize), LAMBDA regionAnalysis :
      With(detectBlurType(data, info.width, info.height, overallSharpness, rnd),
           LAMBDA blurAnalysis :
      With(analyzeEdges(data, info.width, info.height), LAMBDA edgeAnalysis :
      With(determineFocusPlane(regionAnalysis), LAMBDA focusPlane :
      With(calculateSharpnessScore_sharpness(overallSharpness, blurAnalysis, edgeAnalysis,
                                             focusPlane), LAMBDA score :
        Ok([ overall |-> [ variance |-> FRoundTo(overallSharpness, 100),
                           score |-> score,
                           assessment |-> getSharpnessAssessment(score) ],
             regions |-> regionAnalysis,
             blur |-> blurAnalysis,
             edges |-> edgeAnalysis,
             focusPlane |-> focusPlane,
             dimensions |-> [ analyzed |-> [width |-> info.width, height |-> info.height],
                              original |-> [ width |-> buffer.width,
                                             height |-> buffer.height ] ] ]))))))))))

\* a settled promise
Resolved(v) == [state |-> "resolved", value |-> v]

Rejected == [state |-> "rejected"]

\* analyzeSharpness without its catch clause
analyzeSharpness_nocatch(buffer, rnd) ==
  IF buffer = Null THEN Resolved(createEmptyAnalysis_sharpness)
  ELSE With(analyzeSharpness_try(buffer, rnd), LAMBDA body :
         IF body.threw THEN Rejected ELSE Resolved(body.value))

analyzeSharpness(buffer, rnd) ==
  IF buffer = Null THEN Resolved(createEmptyAnalysis_sharpness)
  ELSE With(analyzeSharpness_try(buffer, rnd), LAMBDA body :
         IF body.threw THEN Resolved(createEmptyAnalysis_sharpness) ELSE Resolved(body.value))

(***************************************************************************)
(* compositionAnalyzer.js                                                  *)
(***************************************************************************)
blockSize == 30

\* Math.sqrt of a fraction, rounded down to a hundredth
FSqrt(x) ==
  IF x.d = 0 THEN (IF x.n > 0 THEN x ELSE NaN)
  ELSE IF x.n < 0 THEN NaN
  ELSE Frac(ISqrt((x.n * 10000) \div x.d), 100)

\* the largest of f(lo), ..., f(hi), taken in halves
RECURSIVE MaxOver(_, _, _)
MaxOver(f(_), lo, hi) ==
  IF lo = hi THEN f(lo)
  ELSE With(MaxOver(f, lo, (lo + hi) \div 2), LAMBDA left :
       With(MaxOver(f, ((lo + hi) \div 2) + 1, hi), LAMBDA right :
         IF right > left THEN right ELSE left))

\* the first k in lo..hi with f(k) = v
FirstWith(f(_), v, lo, hi) ==
  CHOOSE k \in lo..hi : f(k) = v /\ \A o \in lo..(k - 1) : f(o) # v

\* the inner loops of findInterestPoints on the block (bx..x2-1) x (by..y2-1):
\* the first pixel, row by row, of the highest contrast; (bx, by) with
\* strength 0 when no pixel has a positive contrast
BlockMax(data, width, bx, x2, by, y2) ==
  LET span == x2 - bx
      contrast(k) ==
        LET idx == (by + (k \div span)) * width + (bx + (k % span))
        IN Abs(At(data, idx) - At(data, idx + 1)) + Abs(At(data, idx) - At(data, idx + width))
      last == span * (y2 - by) - 1
  IN IF x2 <= bx \/ y2 <= by THEN [x |-> bx, y |-> by, strength |-> 0]
     ELSE With(MaxOver(contrast, 0, last), LAMBDA maxContrast :
            IF maxContrast = 0 THEN [x |-> bx, y |-> by, strength |-> 0]
            ELSE With(FirstWith(contrast, maxContrast, 0, last), LAMBDA at :
                   [ x |-> bx + (at % span), y |-> by + (at \div span),
                     strength |-> maxContrast ]))

Min2(a, b) == IF a < b THEN a ELSE b

\* points.sort((a, b) => b.strength - a.strength).slice(0, n), a stable sort
RECURSIVE Strongest(_, _)
Strongest(points, n) ==
  IF n = 0 \/ points = <<>> THEN <<>>
  ELSE With(CHOOSE j \in 1..Len(points) :
              /\ \A m \in 1..Len(points) : points[m].strength <= points[j].strength
              /\ \A m \in 1..(j - 1) : points[m].strength < points[j].strength,
            LAMBDA first :
         <<points[first]>>
           \o Strongest(Stored([m \in 1..(Len(points) - 1) |->
                                  IF m < first THEN points[m] ELSE points[m + 1]]), n - 1))

findInterestPoints(data, width, height, threshold) ==
  LET columns == (width + blockSize - 1) \div blockSize
      rows == (height + blockSize - 1) \div blockSize
      block(k) ==
        LET bx == ((k - 1) % columns) * blockSize
            by == ((k - 1) \div columns) * blockSize
        IN BlockMax(data, width, bx, Min2(bx + blockSize, width - 1),
                    by, Min2(by + blockSize, height - 1))
  IN Strongest(SelectSeq(Stored([k \in 1..(columns * rows) |-> block(k)]),
                         LAMBDA p : p.strength > threshold), 10)

analyzeThirdsLines(interestPoints, width, height) ==
  LET tolerance == Frac(Min2(width, height) * 5, 100)
      near(v, line) == FLt(FAbs(FSub(I(v), line)), tolerance)
      onVertical(k) ==
        LET p == interestPoints[k]
        IN (IF near(p.x, Frac(width, 3)) THEN p.strength ELSE 0)
           + (IF near(p.x, Frac(width * 2, 3)) THEN p.strength ELSE 0)
      onHorizontal(k) ==
        LET p == interestPoints[k]
        IN (IF near(p.y, Frac(height, 3)) THEN p.strength ELSE 0)
           + (IF near(p.y, Frac(height * 2, 3)) THEN p.strength ELSE 0)
  IN [ vertical |-> SumRange(onVertical, 1, Len(interestPoints)) > 100,
       horizontal |-> SumRange(onHorizontal, 1, Len(interestPoints)) > 100 ]

\* the loops over interest points and power points: the pair of the smallest
\* distance, the first such pair in the order of the loops.  Distances are
\* compared by their squares.
NearestPower(interestPoints, powerPoints) ==
  LET pairs == Len(interestPoints) * Len(powerPoints)
      dist2(k) ==
        LET interest == interestPoints[((k - 1) \div Len(powerPoints)) + 1]
            power == powerPoints[((k - 1) % Len(powerPoints)) + 1]
        IN FAdd(FMul(FSub(I(interest.x), power.x), FSub(I(interest.x), power.x)),
                FMul(FSub(I(interest.y), power.y), FSub(I(interest.y), power.y)))
  IN IF pairs = 0 THEN [dist2 |-> Frac(1, 0), name |-> Null]
     ELSE With(Stored([k \in 1..pairs |-> dist2(k)]), LAMBDA all :
          With(MinRange(all, 1, pairs), LAMBDA smallest :
          With(CHOOSE k \in 1..pairs :
                 all[k] = smallest /\ \A o \in 1..(k - 1) : all[o] # smallest, LAMBDA first :
            [ dist2 |-> smallest,
              name |-> powerPoints[((first - 1) % Len(powerPoints)) + 1].name ])))

\* the two fields analyzeRuleOfThirds derives from the alignment (a fraction
\* of 1), compositionAnalyzer.js:103 and 107
alignmentPercent(alignment) == FRound(FMul(alignment, I(100)))

thirdsAssessment(alignment) ==
  IF FGt(alignment, Frac(7, 10)) THEN "strong"
  ELSE IF FGt(alignment, Frac(4, 10)) THEN "moderate" ELSE "weak"

analyzeRuleOfThirds(data, width, height) ==
  LET powerPoints ==
        << [x |-> Frac(width, 3), y |-> Frac(height, 3), name |-> "top-left"],
           [x |-> Frac(width * 2, 3), y |-> Frac(height, 3), name |-> "top-right"],
           [x |-> Frac(width, 3), y |-> Frac(height * 2, 3), name |-> "bottom-left"],
           [x |-> Frac(width * 2, 3), y |-> Frac(height * 2, 3), name |-> "bottom-right"] >>
      maxDist == FSqrt(Frac(width * width + height * height, 36))
  IN With(findInterestPoints(data, width, height, 50), LAMBDA interestPoints :
     With(NearestPower(interestPoints, powerPoints), LAMBDA nearest :
     With(FMax(I(0), FSub(I(1), FDiv(FSqrt(nearest.dist2), maxDist))), LAMBDA alignment :
       [ alignment |-> alignmentPercent(alignment),
         nearestPowerPoint |-> nearest.name,
         interestPointCount |-> Len(interestPoints),
         thirdsLines |-> analyzeThirdsLines(interestPoints, width, height),
         assessment |-> thirdsAssessment(alignment) ])))

calculateQuadrantWeight(data, stride, x1, y1, x2, y2) ==
  LET value(x, y) == At(data, y * stride + x)
      count == LoopCount(x1, x2, y1, y2)
  IN IF count > 0 THEN Frac(SumLoop(value, x1, x2, y1, y2), count) ELSE I(0)

\* the balance of two opposite weights, compositionAnalyzer.js:201-202
balanceOf(oneWeight, otherWeight) ==
  FSub(I(1), FDiv(FAbs(FSub(oneWeight, otherWeight)), FAdd(oneWeight, otherWeight)))

\* the type branches of analyzeVisualBalance, compositionAnalyzer.js:205-214
balanceTypeOf(horizontalBalance, verticalBalance) ==
  IF FGt(horizontalBalance, Frac(8, 10)) /\ FGt(verticalBalance, Frac(8, 10))
  THEN "symmetrical"
  ELSE IF FGt(horizontalBalance, Frac(6, 10)) /\ FGt(verticalBalance, Frac(6, 10))
  THEN "balanced"
  ELSE IF FLt(horizontalBalance, Frac(4, 10)) \/ FLt(verticalBalance, Frac(4, 10))
  THEN "dynamic"
  ELSE "asymmetrical"

analyzeVisualBalance(data, width, height) ==
  LET midX == width \div 2
      midY == height \div 2
  IN With([ topLeft |-> calculateQuadrantWeight(data, width, 0, 0, midX, midY),
            topRight |-> calculateQuadrantWeight(data, width, midX, 0, width, midY),
            bottomLeft |-> calculateQuadrantWeight(data, width, 0, midY, midX, height),
            bottomRight |-> calculateQuadrantWeight(data, width, midX, midY, width, height) ],
          LAMBDA quadrants :
     With(balanceOf(FAdd(quadrants.topLeft, quadrants.bottomLeft),
                    FAdd(quadrants.topRight, quadrants.bottomRight)),
          LAMBDA horizontalBalance :
     With(balanceOf(FAdd(quadrants.topLeft, quadrants.topRight),
                    FAdd(quadrants.bottomLeft, quadrants.bottomRight)),
          LAMBDA verticalBalance :
       [ quadrants |-> quadrants,
         horizontal |-> FRound(FMul(horizontalBalance, I(100))),
         vertical |-> FRound(FMul(verticalBalance, I(100))),
         overall |-> FRound(FMul(FDiv(FAdd(horizontalBalance, verticalBalance), I(2)),
                                 I(100))),
         type |-> balanceTypeOf(horizontalBalance, verticalBalance) ])))

sampleCount_tilt == 10

searchRange == 20

\* the slope of the regression line through the samples, then
\* Math.atan(slope) * (180 / Math.PI), compositionAnalyzer.js:338-348
regressionTilt(samples) ==
  LET px(k) == samples[k].x
      py(k) == samples[k].y
      pxy(k) == samples[k].x * samples[k].y
      pxx(k) == samples[k].x * samples[k].x
      n == Len(samples)
  IN With(SumRange(px, 1, n), LAMBDA sumX :
     With(SumRange(py, 1, n), LAMBDA sumY :
     With(n * SumRange(pxy, 1, n) - sumX * sumY, LAMBDA numerator :
     With(n * SumRange(pxx, 1, n) - sumX * sumX, LAMBDA denominator :
       IF denominator = 0 THEN (IF numerator = 0 THEN NaN ELSE I(90 * Sgn(numerator)))
       ELSE Frac(Atan2Deg(numerator, denominator), 100)))))

detectHorizonTilt(data, width, height, approximateY) ==
  LET sx(k) == ((2 * k + 1) * width) \div (2 * sampleCount_tilt)
      lo == IF approximateY - searchRange < 1 THEN 1 ELSE approximateY - searchRange
      hi == Min2(approximateY + searchRange, height - 2)
      sy(k) ==
        LET gradient(y) ==
              Abs(At(data, (y - 1) * width + sx(k)) - At(data, (y + 1) * width + sx(k)))
        IN IF lo > hi THEN approximateY
           ELSE With(MaxOver(gradient, lo, hi), LAMBDA maxGradient :
                  IF maxGradient = 0 THEN approximateY
                  ELSE FirstWith(gradient, maxGradient, lo, hi))
  IN regressionTilt(Stored([k \in 1..sampleCount_tilt |-> [x |-> sx(k - 1), y |-> sy(k - 1)]]))

\* the position branches of detectHorizon, compositionAnalyzer.js:285-295
horizonPositionQuality(positionRatio) ==
  IF FGt(positionRatio, Frac(3, 10)) /\ FLt(positionRatio, Frac(4, 10)) THEN "upper-third"
  ELSE IF FGt(positionRatio, Frac(6, 10)) /\ FLt(positionRatio, Frac(7, 10)) THEN "lower-third"
  ELSE IF FGt(positionRatio, Frac(45, 100)) /\ FLt(positionRatio, Frac(55, 100)) THEN "centered"
  ELSE "off-center"

detectHorizon(data, width, height) ==
  LET first == height \div 5
      last == (4 * height) \div 5 - 1
      \* edgeSum of row y; the row's strength is edgeSum / width
      edgeSum(y) ==
        LET gradient(x) == Abs(At(data, (y - 1) * width + x) - At(data, (y + 1) * width + x))
        IN IF y > 0 /\ y < height - 1 THEN SumRange(gradient, 0, width - 2) ELSE 0
      undetected == [detected |-> FALSE, position |-> Null, level |-> Null, tilt |-> Null]
  IN IF last < first THEN undetected
     ELSE
       With(Stored([k \in 1..(last - first + 1) |-> edgeSum(first + k - 1)]), LAMBDA sums :
       With(MaxOver(LAMBDA k : sums[k], 1, Len(sums)), LAMBDA strongest :
         IF FLt(Frac(strongest, width), I(10)) THEN undetected
         ELSE
           With(first - 1 + CHOOSE k \in 1..Len(sums) :
                  sums[k] = strongest /\ \A o \in 1..(k - 1) : sums[o] # strongest,
                LAMBDA horizonY :
           With(detectHorizonTilt(data, width, height, horizonY), LAMBDA tilt :
             [ detected |-> TRUE,
               position |-> FRound(FMul(Frac(horizonY, height), I(100))),
               positionQuality |-> horizonPositionQuality(Frac(horizonY, height)),
               level |-> FLt(FAbs(tilt), I(1)),
               tilt |-> FRoundTo(tilt, 10),
               strength |-> FRound(Frac(strongest, width)) ]))))

\* magnitudes in tenths, angles in hundredths of a degree
detectLeadingLines(data, width, height) ==
  LET columns == IF width > 20 THEN (width - 21) \div 20 + 1 ELSE 0
      rows == IF height > 20 THEN (height - 21) \div 20 + 1 ELSE 0
      px(k) == 10 + 20 * (k % columns)
      py(k) == 10 + 20 * (k \div columns)
      gx(k) == At(data, py(k) * width + px(k) + 1) - At(data, py(k) * width + px(k) - 1)
      gy(k) == At(data, (py(k) + 1) * width + px(k)) - At(data, (py(k) - 1) * width + px(k))
      squared(k) == gx(k) * gx(k) + gy(k) * gy(k)
      magnitude10(k) == ISqrt(squared(k) * 100)
      angle(k) == Atan2Deg(gy(k), gx(k))
      angleDiff(k) == Abs(angle(k) - Atan2Deg(height - 2 * py(k), width - 2 * px(k)))
      counted(k) == squared(k) > 20 * 20
      isHorizontal(k) == Abs(angle(k)) < 2000 \/ Abs(angle(k)) > 16000
      isVertical(k) == Abs(angle(k) - 9000) < 2000 \/ Abs(angle(k) + 9000) < 2000
      toCenter(k) ==
        IF counted(k) /\ (angleDiff(k) < 3000 \/ angleDiff(k) > 15000) THEN magnitude10(k) ELSE 0
      horizontal(k) == IF counted(k) /\ isHorizontal(k) THEN magnitude10(k) ELSE 0
      vertical(k) ==
        IF counted(k) /\ ~isHorizontal(k) /\ isVertical(k) THEN magnitude10(k) ELSE 0
      diagonal(k) ==
        IF counted(k) /\ ~isHorizontal(k) /\ ~isVertical(k) THEN magnitude10(k) ELSE 0
      last == columns * rows - 1
      order == <<"toCenter", "horizontal", "vertical", "diagonal">>
  IN With([ toCenter |-> Frac(SumRange(toCenter, 0, last), 10),
            horizontal |-> Frac(SumRange(horizontal, 0, last), 10),
            vertical |-> Frac(SumRange(vertical, 0, last), 10),
            diagonal |-> Frac(SumRange(diagonal, 0, last), 10) ], LAMBDA directions :
     With(OrElse(FAdd(FAdd(FAdd(directions.toCenter, directions.horizontal),
                           directions.vertical), directions.diagonal), I(1)), LAMBDA total :
     With([ toCenter |-> FRound(FMul(FDiv(directions.toCenter, total), I(100))),
            horizontal |-> FRound(FMul(FDiv(directions.horizontal, total), I(100))),
            vertical |-> FRound(FMul(FDiv(directions.vertical, total), I(100))),
            diagonal |-> FRound(FMul(FDiv(directions.diagonal, total), I(100))) ],
          LAMBDA normalized :
     \* reduce((a, b) => (b[1] > a[1] ? b : a)): the first of the largest
     With(order[CHOOSE k \in 1..4 :
                  /\ \A o \in 1..4 : FLe(normalized[order[o]], normalized[order[k]])
                  /\ \A o \in 1..(k - 1) : FLt(normalized[order[o]], normalized[order[k]])],
          LAMBDA dominant :
     With(FGt(directions.toCenter, FMul(total, Frac(3, 10))), LAMBDA leadToSubject :
       [ detected |-> leadToSubject \/ FGt(normalized[dominant], I(40)),
         dominant |-> dominant,
         strength |-> normalized[dominant],
         distribution |-> normalized,
         leadToSubject |-> leadToSubject ])))))

analyzeWeightDistribution(data, width, height) ==
  LET wx(x, y) == x * At(data, y * width + x)
      wy(x, y) == y * At(data, y * width + x)
      w(x, y) == At(data, y * width + x)
  IN With(SumLoop(w, 0, width, 0, height), LAMBDA totalWeight :
     With([ x |-> FDiv(Frac(SumLoop(wx, 0, width, 0, height), totalWeight), I(width)),
            y |-> FDiv(Frac(SumLoop(wy, 0, width, 0, height), totalWeight), I(height)) ],
          LAMBDA centerOfMass :
     With(FAbs(FSub(centerOfMass.x, Frac(1, 2))), LAMBDA offsetX :
     With(FAbs(FSub(centerOfMass.y, Frac(1, 2))), LAMBDA offsetY :
       [ centerOfMass |-> [ x |-> FRound(FMul(centerOfMass.x, I(100))),
                            y |-> FRound(FMul(centerOfMass.y, I(100))) ],
         offset |-> [ x |-> FRound(FMul(offsetX, I(100))),
                      y |-> FRound(FMul(offsetY, I(100))) ],
         centered |-> FLt(offsetX, Frac(1, 10)) /\ FLt(offsetY, Frac(1, 10)) ]))))

analyzeSymmetry(data, width, height) ==
  LET halfWidth == (width + 1) \div 2
      halfHeight == (height + 1) \div 2
      leftRight(x, y) == Abs(At(data, y * width + x) - At(data, y * width + (width - 1 - x)))
      topBottom(x, y) == Abs(At(data, y * width + x) - At(data, (height - 1 - y) * width + x))
      count == LoopCount(0, halfWidth, 0, height)
      vCount == LoopCount(0, width, 0, halfHeight)
  IN With(FSub(I(1), Frac(SumLoop(leftRight, 0, halfWidth, 0, height), count * 255)),
          LAMBDA horizontalSymmetry :
     With(FSub(I(1), Frac(SumLoop(topBottom, 0, width, 0, halfHeight), vCount * 255)),
          LAMBDA verticalSymmetry :
       [ horizontal |-> FRound(FMul(horizontalSymmetry, I(100))),
         vertical |-> FRound(FMul(verticalSymmetry, I(100))),
         overall |-> FRound(FMul(FDiv(FAdd(horizontalSymmetry, verticalSymmetry), I(2)),
                                 I(100))),
         type |-> IF FGt(horizontalSymmetry, Frac(8, 10)) THEN "horizontally-symmetric"
                  ELSE IF FGt(verticalSymmetry, Frac(8, 10)) THEN "vertically-symmetric"
                  ELSE IF /\ FGt(horizontalSymmetry, Frac(6, 10))
                          /\ FGt(verticalSymmetry, Frac(6, 10)) THEN "balanced"
                  ELSE "asymmetric" ]))

calculateCompositionScore(ruleOfThirds, balance, horizon, symmetry) ==
  LET thirds == IF FGt(ruleOfThirds.alignment, I(60)) THEN <<[by |-> 15, factor |-> "strong-thirds: +15"]>>
                ELSE IF FGt(ruleOfThirds.alignment, I(30)) THEN <<[by |-> 8, factor |-> "moderate-thirds: +8"]>>
                ELSE <<>>
      balanced == IF balance.type = "balanced" \/ balance.type = "symmetrical"
                  THEN <<[by |-> 8, factor |-> "balanced: +8"]>>
                  ELSE IF balance.type = "dynamic" THEN <<[by |-> 5, factor |-> "dynamic-balance: +5"]>>
                  ELSE <<>>
      tilted == IF horizon.detected /\ ~horizon.level /\ FGt(FAbs(horizon.tilt), I(4))
                THEN <<[by |-> -8, factor |-> "tilted-horizon: -8"]>> ELSE <<>>
      onThird == IF /\ horizon.detected
                    /\ horizon.positionQuality \in {"upper-third", "lower-third"}
                 THEN <<[by |-> 5, factor |-> "horizon-on-third: +5"]>> ELSE <<>>
      symmetric == IF symmetry.type = "horizontally-symmetric"
                   THEN <<[by |-> 5, factor |-> "symmetric: +5"]>> ELSE <<>>
  IN With(thirds \o balanced \o tilted \o onThird \o symmetric, LAMBDA steps :
     With(65 + SumRange(LAMBDA k : steps[k].by, 1, Len(steps)), LAMBDA score :
       [ score |-> FMax(I(0), FMin(I(100), FRound(I(score)))),
         factors |-> [k \in 1..Len(steps) |-> steps[k].factor],
         assessment |-> IF score >= 75 THEN "excellent" ELSE IF score >= 60 THEN "good"
                        ELSE IF score >= 45 THEN "average" ELSE "weak" ]))

\* the body of the try block of analyzeComposition
analyzeComposition_try(buffer) ==
  With(sharpGrayscaleRaw(buffer), LAMBDA decoded :
    IF decoded.threw THEN Threw
    ELSE
      With(decoded.value.data, LAMBDA data :
      With(decoded.value.info, LAMBDA info :
      With(analyzeRuleOfThirds(data, info.width, info.height), LAMBDA ruleOfThirds :
      With(analyzeVisualBalance(data, info.width, info.height), LAMBDA balance :
      With(detectHorizon(data, info.width, info.height), LAMBDA horizon :
      With(analyzeSymmetry(data, info.width, info.height), LAMBDA symmetry :
        Ok([ ruleOfThirds |-> ruleOfThirds,
             balance |-> balance,
             horizon |-> horizon,
             leadingLines |-> detectLeadingLines(data, info.width, info.height),
             weightDistribution |-> analyzeWeightDistribution(data, info.width, info.height),
             symmetry |-> symmetry,
             score |-> calculateCompositionScore(ruleOfThirds, balance, horizon, symmetry),
             dimensions |-> [width |-> info.width, height |-> info.height] ]))))))))

\* analyzeComposition without its catch clause
analyzeComposition_nocatch(buffer) ==
  IF buffer = Null THEN Resolved(createEmptyAnalysis_composition)
  ELSE With(analyzeComposition_try(buffer), LAMBDA body :
         IF body.threw THEN Rejected ELSE Resolved(body.value))

analyzeComposition(buffer) ==
  IF buffer = Null THEN Resolved(createEmptyAnalysis_composition)
  ELSE With(analyzeComposition_try(buffer), LAMBDA body :
         IF body.threw THEN Resolved(createEmptyAnalysis_composition)
         ELSE Resolved(body.value))

(***************************************************************************)
(* histogramAnalyzer.js                                                    *)
(***************************************************************************)
Levels == 0..255

\* sharp(buffer).stats(): mean and standard deviation of each channel of the
\* picture; the deviation is kept to a tenth
sharpStats(buffer) ==
  With(sharpRaw(buffer), LAMBDA raw :
    IF raw.threw THEN Threw
    ELSE
      With(raw.value.data, LAMBDA data :
      With(raw.value.info.channels, LAMBDA ch :
      With(raw.value.info.width * raw.value.info.height, LAMBDA total :
        LET channel(c) ==
              With(SumRange(LAMBDA p : At(data, p * ch + c), 0, total - 1), LAMBDA sum :
              With((SumRange(LAMBDA p : At(data, p * ch + c) * At(data, p * ch + c),
                             0, total - 1) \div total)
                      - ((((10 * sum) \div total) * ((10 * sum) \div total)) \div 100),
                   LAMBDA variance :
                [ mean |-> Frac(sum, total),
                  stdev |-> Frac(ISqrt(100 * (IF variance > 0 THEN variance ELSE 0)), 10) ]))
        IN Ok([channels |-> Stored([c \in 1..ch |-> channel(c - 1)])])))))

\* data[idx] of a typed array, -1 standing for undefined past its end
Sample(data, idx) == IF idx < Len(data) THEN data[idx + 1] ELSE -1

\* hist[v] after the loop: the number of pixels p with value(p) = v.  Only the
\* values that occur are counted, the other buckets keep their 0; an undefined
\* or NaN index increments no bucket.
Tally(value(_), pixels) ==
  LET occurring == {value(p) : p \in 0..(pixels - 1)}
  IN [v \in Levels |->
        IF v \in occurring THEN Cardinality({p \in 0..(pixels - 1) : value(p) = v}) ELSE 0]

\* the normalize closure: v => (v / totalPixels) * 100
normalize(hist, totalPixels) == [v \in Levels |-> FMul(Frac(hist[v], totalPixels), I(100))]

\* the pixel loop of computeHistogram, for (i = 0; i < data.length; i += step),
\* and the four normalized histograms
tallied(data, step, totalPixels) ==
  LET r(p) == Sample(data, p * step)
      g(p) == Sample(data, p * step + 1)
      b(p) == Sample(data, p * step + 2)
      luminance(p) == IF r(p) < 0 \/ g(p) < 0 \/ b(p) < 0 THEN -1
                      ELSE Luma(<<r(p), g(p), b(p)>>)
      iterations == (Len(data) + step - 1) \div step
  IN [ red |-> normalize(Tally(r, iterations), totalPixels),
       green |-> normalize(Tally(g, iterations), totalPixels),
       blue |-> normalize(Tally(b, iterations), totalPixels),
       luminance |-> normalize(Tally(luminance, iterations), totalPixels),
       totalPixels |-> totalPixels ]

\* computeHistogram with the loop stepping by 3 whatever the number of channels
computeHistogram_threeChannels(buffer) ==
  With(sharpRaw(buffer), LAMBDA raw :
    IF raw.threw THEN Threw
    ELSE Ok(tallied(raw.value.data, 3, raw.value.info.width * raw.value.info.height)))

computeHistogram(buffer) ==
  With(sharpRaw(buffer), LAMBDA raw :
    IF raw.threw THEN Threw
    ELSE Ok(tallied(raw.value.data, raw.value.info.channels,
                    raw.value.info.width * raw.value.info.height)))

\* arr.slice(lo, hi + 1).reduce((a, b) => a + b, 0), added in halves
RECURSIVE FSumRange(_, _, _)
FSumRange(f(_), lo, hi) ==
  IF lo > hi THEN I(0)
  ELSE IF lo = hi THEN f(lo)
  ELSE FAdd(FSumRange(f, lo, (lo + hi) \div 2), FSumRange(f, ((lo + hi) \div 2) + 1, hi))

\* calculateVariance of a histogram, in fixed point: the percentages to a
\* hundredth, the result to a ten-thousandth
calculateVariance(arr) ==
  With(Stored([k \in 1..256 |-> FRound(FMul(arr[k - 1], I(100))).n]), LAMBDA cents :
  With(SumRange(LAMBDA k : cents[k], 1, 256) \div 256, LAMBDA mean :
    Frac(SumRange(LAMBDA k : (cents[k] - mean) * (cents[k] - mean), 1, 256) \div 256, 10000)))

analyzeHistogramShape(luminance) ==
  LET isPeak(k) ==
        /\ FGt(luminance[k], Frac(1, 2))
        /\ \A o \in (k - 5)..(k + 5) : FLe(luminance[o], luminance[k])
  IN With({k \in 5..250 : isPeak(k)}, LAMBDA peaks :
       IF Cardinality(peaks) = 1
       THEN With(CHOOSE k \in peaks : TRUE, LAMBDA only :
              IF only < 80 THEN "low-key" ELSE IF only > 180 THEN "high-key" ELSE "normal")
       ELSE IF Cardinality(peaks) = 2
       THEN With(CHOOSE k \in peaks : \A o \in peaks : k <= o, LAMBDA lowest :
            With(CHOOSE k \in peaks : \A o \in peaks : o <= k, LAMBDA highest :
              IF highest - lowest > 100 THEN "bimodal-contrast" ELSE "bimodal"))
       ELSE IF Cardinality(peaks) > 2 THEN "multi-modal"
       ELSE IF FLt(calculateVariance(luminance), Frac(1, 10)) THEN "flat"
       ELSE "normal")

\* the assessment branches with a mean of exactly 180 taken as overexposed
exposureFound_from180(meanBrightness) ==
  IF FLt(meanBrightness, I(80))
  THEN [assessment |-> "underexposed", deviation |-> FDiv(FSub(I(80), meanBrightness), I(80))]
  ELSE IF FGe(meanBrightness, I(180))
  THEN [assessment |-> "overexposed", deviation |-> FDiv(FSub(meanBrightness, I(180)), I(75))]
  ELSE IF FGe(meanBrightness, I(100)) /\ FLe(meanBrightness, I(160))
  THEN [assessment |-> "well-exposed", deviation |-> I(0)]
  ELSE IF FLt(meanBrightness, I(100))
  THEN [assessment |-> "slightly-under", deviation |-> FDiv(FSub(I(100), meanBrightness), I(100))]
  ELSE [assessment |-> "slightly-over", deviation |-> FDiv(FSub(meanBrightness, I(160)), I(60))]

\* the assessment branches of analyzeExposure
exposureFound(meanBrightness) ==
  IF FLt(meanBrightness, I(80))
  THEN [assessment |-> "underexposed", deviation |-> FDiv(FSub(I(80), meanBrightness), I(80))]
  ELSE IF FGt(meanBrightness, I(180))
  THEN [assessment |-> "overexposed", deviation |-> FDiv(FSub(meanBrightness, I(180)), I(75))]
  ELSE IF FGe(meanBrightness, I(100)) /\ FLe(meanBrightness, I(160))
  THEN [assessment |-> "well-exposed", deviation |-> I(0)]
  ELSE IF FLt(meanBrightness, I(100))
  THEN [assessment |-> "slightly-under", deviation |-> FDiv(FSub(I(100), meanBrightness), I(100))]
  ELSE [assessment |-> "slightly-over", deviation |-> FDiv(FSub(meanBrightness, I(160)), I(60))]

analyzeExposure(hist, stats) ==
  LET luminance == hist.luminance
      weighted(k) == FMul(I(k), luminance[k])
      plain(k) == luminance[k]
  IN With(FDiv(FSumRange(weighted, 0, 255), FSumRange(plain, 0, 255)), LAMBDA meanBrightness :
     With(exposureFound(meanBrightness), LAMBDA found :
       [ meanBrightness |-> FRound(meanBrightness),
         assessment |-> found.assessment,
         deviation |-> FMin(I(1), found.deviation),
         zones |-> [ shadows |-> FRoundTo(FSumRange(plain, 0, 63), 100),
                     midtones |-> FRoundTo(FSumRange(plain, 64, 191), 100),
                     highlights |-> FRoundTo(FSumRange(plain, 192, 255), 100) ],
         shape |-> analyzeHistogramShape(luminance) ]))

analyzeClipping(hist) ==
  LET luminance == hist.luminance
      plain(k) == luminance[k]
  IN With(FSumRange(plain, 0, 5), LAMBDA shadowClipped :
     With(FSumRange(plain, 250, 255), LAMBDA highlightClipped :
       [ shadows |-> [ clipped |-> FRoundTo(shadowClipped, 100),
                       nearClip |-> FRoundTo(FSumRange(plain, 6, 19), 100),
                       severity |-> getSeverity(shadowClipped) ],
         highlights |-> [ clipped |-> FRoundTo(highlightClipped, 100),
                          nearClip |-> FRoundTo(FSumRange(plain, 235, 249), 100),
                          severity |-> getSeverity(highlightClipped) ],
         totalClipped |-> FRoundTo(FAdd(shadowClipped, highlightClipped), 100),
         recoverable |-> FLt(shadowClipped, I(5)) /\ FLt(highlightClipped, I(5)) ]))

\* Math.round(Math.log2(n) * 10) for n >= 1: ten times the exponent of the
\* largest power of two not above n, plus the tenths of the remaining factor
\* (the factors 2^0.05, 2^0.15, ..., 2^0.95 in ten-thousandths)
RECURSIVE Log2Floor(_)
Log2Floor(n) == IF n < 2 THEN 0 ELSE 1 + Log2Floor(n \div 2)

RECURSIVE Pow2(_)
Pow2(k) == IF k = 0 THEN 1 ELSE 2 * Pow2(k - 1)

Log2Tenths(n) ==
  LET steps == <<10353, 11096, 11892, 12746, 13660, 14641, 15692, 16818, 18025, 19319>>
  IN With(Log2Floor(n), LAMBDA k :
       10 * k + Cardinality({j \in 1..10 : steps[j] * Pow2(k) <= n * 10000}))

analyzeDynamicRange(hist) ==
  LET luminance == hist.luminance
  IN With({k \in Levels : FGt(luminance[k], Frac(1, 10))}, LAMBDA used :
     With(IF used = {} THEN 0 ELSE CHOOSE k \in used : \A o \in used : k <= o, LAMBDA minUsed :
     With(IF used = {} THEN 255 ELSE CHOOSE k \in used : \A o \in used : o <= k, LAMBDA maxUsed :
     With(FMul(Frac(maxUsed - minUsed, 255), I(100)), LAMBDA rangePercentage :
       [ min |-> minUsed,
         max |-> maxUsed,
         range |-> maxUsed - minUsed,
         percentage |-> FRound(rangePercentage),
         assessment |-> IF FGt(rangePercentage, I(80)) THEN "excellent"
                        ELSE IF FGt(rangePercentage, I(60)) THEN "good"
                        ELSE IF FGt(rangePercentage, I(40)) THEN "moderate"
                        ELSE IF FGt(rangePercentage, I(20)) THEN "limited"
                        ELSE "very-limited",
         estimatedStops |-> Frac(Log2Tenths(maxUsed - minUsed + 1), 10) ]))))

\* throws a TypeError when stats has fewer than three channels
analyzeContrast(hist, stats) ==
  IF Len(stats.channels) < 3 THEN Threw
  ELSE With(FDiv(FAdd(FAdd(stats.channels[1].stdev, stats.channels[2].stdev),
                      stats.channels[3].stdev), I(3)), LAMBDA avgStd :
         Ok([ standardDeviation |-> FRound(avgStd),
              level |-> IF FGt(avgStd, I(70)) THEN "high"
                        ELSE IF FGt(avgStd, I(50)) THEN "medium-high"
                        ELSE IF FGt(avgStd, I(30)) THEN "medium"
                        ELSE IF FGt(avgStd, I(15)) THEN "low"
                        ELSE "very-low",
              variance |-> FRoundTo(calculateVariance(hist.luminance), 1000) ]))

calculateExposureScore_histogram(exposure, clipping, dynamicRange) ==
  LET deviation == FMul(exposure.deviation, I(20))
      shadowPenalty ==
        IF FGt(clipping.shadows.clipped, I(2))
        THEN FMin(I(15), FMul(FSub(clipping.shadows.clipped, I(2)), Frac(3, 2))) ELSE I(0)
      highlightPenalty ==
        IF FGt(clipping.highlights.clipped, I(2))
        THEN FMin(I(20), FMul(FSub(clipping.highlights.clipped, I(2)), I(2))) ELSE I(0)
      rangePenalty == IF dynamicRange.assessment = "very-limited" THEN I(10)
                      ELSE IF dynamicRange.assessment = "limited" THEN I(5) ELSE I(0)
      midtoneBonus == IF FGt(exposure.zones.midtones, I(50)) THEN I(5) ELSE I(0)
      rangeBonus == IF dynamicRange.assessment = "excellent" THEN I(5)
                    ELSE IF dynamicRange.assessment = "good" THEN I(3) ELSE I(0)
      score == FAdd(FAdd(FSub(FSub(FSub(FSub(I(85), deviation), shadowPenalty),
                                   highlightPenalty), rangePenalty), midtoneBonus), rangeBonus)
  IN FMax(I(0), FMin(I(100), FRound(score)))

\* the body of the try block of analyzeHistogram
analyzeHistogram_try(buffer) ==
  With(sharpStats(buffer), LAMBDA stats :
  With(computeHistogram(buffer), LAMBDA hist :
    IF stats.threw \/ hist.threw THEN Threw
    ELSE
      With(analyzeExposure(hist.value, stats.value), LAMBDA exposureAnalysis :
      With(analyzeClipping(hist.value), LAMBDA clippingAnalysis :
      With(analyzeDynamicRange(hist.value), LAMBDA dynamicRange :
      With(analyzeContrast(hist.value, stats.value), LAMBDA contrastAnalysis :
      With(stats.value.channels, LAMBDA channels :
        IF contrastAnalysis.threw THEN Threw
        ELSE Ok([ histogram |-> [ red |-> hist.value.red, green |-> hist.value.green,
                                  blue |-> hist.value.blue,
                                  luminance |-> hist.value.luminance ],
                  stats |-> [ red |-> [mean |-> channels[1].mean, std |-> channels[1].stdev],
                              green |-> [mean |-> channels[2].mean, std |-> channels[2].stdev],
                              blue |-> [mean |-> channels[3].mean, std |-> channels[3].stdev] ],
                  exposure |-> exposureAnalysis,
                  clipping |-> clippingAnalysis,
                  dynamicRange |-> dynamicRange,
                  contrast |-> contrastAnalysis.value,
                  score |-> calculateExposureScore_histogram(exposureAnalysis,
                                                             clippingAnalysis,
                                                             dynamicRange) ]))))))))

\* analyzeHistogram without its catch clause
analyzeHistogram_nocatch(buffer) ==
  IF buffer = Null THEN Resolved(createEmptyAnalysis_histogram)
  ELSE With(analyzeHistogram_try(buffer), LAMBDA body :
         IF body.threw THEN Rejected ELSE Resolved(body.value))

analyzeHistogram(buffer) ==
  IF buffer = Null THEN Resolved(createEmptyAnalysis_histogram)
  ELSE With(analyzeHistogram_try(buffer), LAMBDA body :
         IF body.threw THEN Resolved(createEmptyAnalysis_histogram) ELSE Resolved(body.value))

(***************************************************************************)
(* The three engines on one image buffer                                   *)
(***************************************************************************)
MaxSide == 22

Sides == (MaxSide - 1)..MaxSide

UniformLevels == {0, 1, 128, 255}

Corrupt == Picture("corrupt", Grey(0), Grey(0), 0, 0, 0, 3)

\* pictures of one colour: every grey of UniformLevels in every size, and a
\* saturated colour with and without an alpha channel
UniformPictures ==
  {Picture("uniform", Grey(v), Grey(v), 0, w, h, 3) : v \in UniformLevels, w \in Sides, h \in Sides}
    \cup {Picture("uniform", <<255, 0, 10>>, <<255, 0, 10>>, 0, MaxSide, MaxSide, ch) : ch \in {3, 4}}
    \cup {Picture("uniform", Grey(128), Grey(128), 0, MaxSide, MaxSide, 1)}

\* pictures with an edge, a tilted edge, a single bright pixel or a gradient,
\* in colour files and in greyscale files
PatternPictures ==
  {Picture(kind, Grey(40), Grey(200), MaxSide \div 2, MaxSide, MaxSide - 1, ch) :
     kind \in {"vsplit", "hsplit"}, ch \in {1, 3}}
    \cup {Picture("tilted", Grey(40), Grey(160), MaxSide \div 3, MaxSide, MaxSide, ch) : ch \in {3, 4}}
    \cup {Picture("dot", Grey(10), Grey(250), MaxSide \div 2, MaxSide - 1, MaxSide - 1, 3),
          Picture("ramp", Grey(10), Grey(10), 5, MaxSide, MaxSide, 3)}

Pictures == {Corrupt} \cup UniformPictures \cup PatternPictures

\* what Math.random() supplies to analyzeGradientConsistency: the first
\* sample position and the step to the next ones
RandomSources == { [x0 |-> 0, y0 |-> 0, dx |-> 1, dy |-> 1],
                   [x0 |-> 3, y0 |-> 5, dx |-> 7, dy |-> 2] }

Decodable(buffer) == buffer # Null /\ buffer.kind # "corrupt"

InitEngines ==
  /\ imageBuffer \in {Null} \cup Pictures
  /\ sharpness = Null /\ histogram = Null /\ composition = Null
  /\ IdleScore
  /\ IdleBatch
  /\ IdleOrganizer

AnalyzeSharpness ==
  /\ sharpness = Null
  /\ \E rnd \in RandomSources : sharpness' = analyzeSharpness(imageBuffer, rnd)
  /\ UNCHANGED <<imageBuffer, histogram, composition>>
  /\ UNCHANGED scoreVars
  /\ UNCHANGED batchVars
  /\ UNCHANGED organizerVars

AnalyzeHistogram ==
  /\ histogram = Null
  /\ histogram' = analyzeHistogram(imageBuffer)
  /\ UNCHANGED <<imageBuffer, sharpness, composition>>
  /\ UNCHANGED scoreVars
  /\ UNCHANGED batchVars
  /\ UNCHANGED organizerVars

AnalyzeComposition ==
  /\ composition = Null
  /\ composition' = analyzeComposition(imageBuffer)
  /\ UNCHANGED <<imageBuffer, sharpness, histogram>>
  /\ UNCHANGED scoreVars
  /\ UNCHANGED batchVars
  /\ UNCHANGED organizerVars

NextEngines == AnalyzeSharpness \/ AnalyzeHistogram \/ AnalyzeComposition

SpecEngines == InitEngines /\ [][NextEngines]_vars

(***************************************************************************)
(* Claims about the engines                                                *)
(***************************************************************************)
\* an error is raised inside the try block of the engine
Fails_sharpness(buffer) == \E rnd \in RandomSources : analyzeSharpness_try(buffer, rnd).threw

Fails_histogram(buffer) == analyzeHistogram_try(buffer).threw

Fails_composition(buffer) == analyzeComposition_try(buffer).threw

\* C7: analyzeSharpness, analyzeHistogram and analyzeComposition never reject:
\* each promise resolves, and for a missing buffer or an error raised inside
\* the analysis it resolves with the engine's neutral result, whose score is
\* 0 and whose assessment is "unknown".
C7_EnginesResolveNeutral ==
  /\ sharpness # Null =>
       /\ sharpness.state = "resolved"
       /\ (imageBuffer = Null \/ Fails_sharpness(imageBuffer)) =>
            /\ sharpness.value = createEmptyAnalysis_sharpness
            /\ sharpness.value.overall.score = I(0)
            /\ sharpness.value.overall.assessment = "unknown"
  /\ histogram # Null =>
       /\ histogram.state = "resolved"
       /\ (imageBuffer = Null \/ Fails_histogram(imageBuffer)) =>
            /\ histogram.value = createEmptyAnalysis_histogram
            /\ histogram.value.score = I(0)
            /\ histogram.value.exposure.assessment = "unknown"
  /\ composition # Null =>
       /\ composition.state = "resolved"
       /\ (imageBuffer = Null \/ Fails_composition(imageBuffer)) =>
            /\ composition.value = createEmptyAnalysis_composition
            /\ composition.value.score.score = I(0)
            /\ composition.value.score.assessment = "unknown"

\* the three engines have settled on a buffer that sharp cannot decode
C7_Witness ==
  /\ imageBuffer = Corrupt
  /\ sharpness # Null /\ histogram # Null /\ composition # Null
  /\ sharpness.state = "resolved" /\ sharpness.value.overall.assessment = "unknown"

\* C8: for every well-formed buffer no numeric output is NaN: the focus-plane
\* centroid, the quadrant balance ratios, the centre of visual mass and the
\* mean brightness are numbers also when their weight sum is 0.
C8_NoNaN ==
  Decodable(imageBuffer) =>
    /\ (sharpness # Null /\ sharpness.state = "resolved") =>
         /\ ~IsNaN(sharpness.value.focusPlane.center.x)
         /\ ~IsNaN(sharpness.value.focusPlane.center.y)
    /\ (composition # Null /\ composition.state = "resolved") =>
         /\ ~IsNaN(composition.value.balance.horizontal)
         /\ ~IsNaN(composition.value.balance.vertical)
         /\ ~IsNaN(composition.value.balance.overall)
         /\ ~IsNaN(composition.value.weightDistribution.centerOfMass.x)
         /\ ~IsNaN(composition.value.weightDistribution.centerOfMass.y)
    /\ (histogram # Null /\ histogram.state = "resolved") =>
         ~IsNaN(histogram.value.exposure.meanBrightness)

\* pictures whose pixels all equal one grey level
UniformGrey(buffer) ==
  Decodable(buffer) /\ buffer.kind = "uniform" /\ \E v \in Levels : buffer.a = Grey(v)

\* C9: a buffer whose pixels all equal one grey level yields Laplacian
\* variance 0, average edge strength 0, horizontal, vertical and overall
\* symmetry 100, balance type "symmetrical", and rule-of-thirds alignment 0
\* with no interest point.
C9_UniformBuffer ==
  UniformGrey(imageBuffer) =>
    /\ sharpness # Null =>
         /\ sharpness.value.overall.variance = I(0)
         /\ sharpness.value.edges.averageStrength = I(0)
    /\ composition # Null =>
         /\ composition.value.symmetry.horizontal = I(100)
         /\ composition.value.symmetry.vertical = I(100)
         /\ composition.value.symmetry.overall = I(100)
         /\ composition.value.balance.type = "symmetrical"
         /\ composition.value.ruleOfThirds.alignment = I(0)
         /\ composition.value.ruleOfThirds.interestPointCount = 0

\* the sum of the 256 buckets of a histogram
BucketSum(hist) == LET bucket(k) == hist[k] IN FSumRange(bucket, 0, 255)

\* the buckets are 256 and their percentages sum to 100 within 0.5
WithinTolerance(hist) ==
  /\ DOMAIN hist = Levels
  /\ FLe(FAbs(FSub(BucketSum(hist), I(100))), Frac(1, 2))

\* every pixel has incremented one bucket
EveryPixelCounted(hist) == BucketSum(hist) = I(100)

\* C10: for any buffer each of the red, green, blue and luminance histograms
\* that computeHistogram returns has 256 buckets whose percentages sum to 100
\* within 0.5, every pixel having incremented exactly one bucket of each.
C10_HistogramsSumTo100 ==
  (Decodable(imageBuffer) /\ histogram # Null) =>
    LET hist == computeHistogram(imageBuffer).value
    IN \A h \in {hist.red, hist.green, hist.blue, hist.luminance} :
         WithinTolerance(h) /\ EveryPixelCounted(h)

(***************************************************************************)
(* imageAnalyzer.js (part_000): the files, exifParser and previewExtractor *)
(***************************************************************************)
MaxFiles == 3

MaxConcurrency == 3

ColourPreview == Picture("tilted", Grey(40), Grey(160), MaxSide \div 3, MaxSide, MaxSide, 3)

GreyPreview == Picture("vsplit", Grey(40), Grey(200), MaxSide \div 2, MaxSide, MaxSide - 1, 1)

RejectedWith(message) == [state |-> "rejected", reason |-> [message |-> message]]

\* error.message of the reason of a rejected promise
MessageOf(promise) == IF "reason" \in DOMAIN promise THEN promise.reason.message ELSE "Error"

\* The files of the model.  For each path: its base name and extension, what
\* exiftool reads (Null: exiftool fails), how the extractPreview promise
\* settles, the values Math.random() supplies while the file is analysed and
\* the milliseconds the clock advances during its analysis.
\*   in/ok.jpg      a colour photograph
\*   in/grey.png    a greyscale picture that exiftool cannot read
\*   in/raw.cr2     a RAW file without a usable preview
\*   in/locked.jpg  the temporary directory cannot be created (ensureTempDir)
FileSystem ==
  ("in/ok.jpg" :>
     [ name |-> "ok.jpg", extname |-> ".jpg",
       exif |-> [ file |-> [size |-> 2048, type |-> "JPEG"],
                  exposure |-> [iso |-> 400], focus |-> [continuous |-> FALSE] ],
       preview |-> Resolved([ buffer |-> ColourPreview,
                              width |-> ColourPreview.width, height |-> ColourPreview.height,
                              originalWidth |-> 4 * ColourPreview.width,
                              originalHeight |-> 4 * ColourPreview.height ]),
       random |-> [x0 |-> 0, y0 |-> 0, dx |-> 1, dy |-> 1],
       elapsed |-> 12 ])
  @@ ("in/grey.png" :>
     [ name |-> "grey.png", extname |-> ".png",
       exif |-> Null,
       preview |-> Resolved([ buffer |-> GreyPreview,
                              width |-> GreyPreview.width, height |-> GreyPreview.height,
                              originalWidth |-> GreyPreview.width,
                              originalHeight |-> GreyPreview.height ]),
       random |-> [x0 |-> 3, y0 |-> 5, dx |-> 7, dy |-> 2],
       elapsed |-> 7 ])
  @@ ("in/raw.cr2" :>
     [ name |-> "raw.cr2", extname |-> ".cr2",
       exif |-> [ file |-> [size |-> 4096, type |-> "CR2"],
                  exposure |-> [iso |-> 3200], focus |-> [continuous |-> TRUE] ],
       preview |-> Resolved([ buffer |-> Null, width |-> 0, height |-> 0,
                              error |-> "Failed to extract preview" ]),
       random |-> [x0 |-> 0, y0 |-> 0, dx |-> 1, dy |-> 1],
       elapsed |-> 3 ])
  @@ ("in/locked.jpg" :>
     [ name |-> "locked.jpg", extname |-> ".jpg",
       exif |-> [ file |-> [size |-> 0, type |-> ""],
                  exposure |-> [iso |-> 0], focus |-> [continuous |-> FALSE] ],
       preview |-> RejectedWith("EACCES: permission denied, mkdir"),
       random |-> [x0 |-> 0, y0 |-> 0, dx |-> 1, dy |-> 1],
       elapsed |-> 1 ])

Files == DOMAIN FileSystem

\* path.basename(filePath), path.extname(filePath)
basename(filePath) == FileSystem[filePath].name

extname(filePath) == FileSystem[filePath].extname

\* createEmptyExifData, the properties that are read afterwards; iso: null
\* is iso 0, as both are falsy
createEmptyExifData(filePath) ==
  [ file |-> [path |-> filePath, name |-> "", size |-> 0, type |-> ""],
    exposure |-> [iso |-> 0],
    focus |-> [continuous |-> FALSE] ]

\* extractExif: the value its promise resolves with; the catch clause makes it
\* createEmptyExifData when exiftool fails
extractExif(filePath) ==
  IF FileSystem[filePath].exif = Null THEN createEmptyExifData(filePath)
  ELSE FileSystem[filePath].exif

\* extractPreview: the settled promise.  loadAndProcessImage resolves with a
\* JPEG buffer or with a null buffer and an error; ensureTempDir is awaited
\* outside any try block, so its failure rejects the promise.
extractPreview(filePath) == FileSystem[filePath].preview

\* the settled promises of analyzeHistogram, analyzeSharpness and
\* analyzeComposition on the preview of a file
enginesOn(filePath) ==
  LET buffer == FileSystem[filePath].preview.value.buffer
  IN [ histogram |-> analyzeHistogram(buffer),
       sharpness |-> analyzeSharpness(buffer, FileSystem[filePath].random),
       composition |-> analyzeComposition(buffer) ]

\* the engines on the files that have a preview, computed once
EngineRuns ==
  ("in/ok.jpg" :> enginesOn("in/ok.jpg")) @@ ("in/grey.png" :> enginesOn("in/grey.png"))

(***************************************************************************)
(* analyzeImage (part_000:19-103)                                          *)
(***************************************************************************)
\* x || dflt on strings
OrDefault(x, dflt) == IF x = "" THEN dflt ELSE x

\* the object returned at part_000:37-45
noPreviewResult(filePath, preview) ==
  [ file |-> [ path |-> filePath, name |-> basename(filePath),
               error |-> IF "error" \in DOMAIN preview
                         THEN OrDefault(preview.error, "Failed to extract preview")
                         ELSE "Failed to extract preview" ],
    success |-> FALSE,
    error |-> "Could not extract preview from file" ]

\* the object returned by the catch clause, part_000:94-101
caughtResult(filePath, message) ==
  [ file |-> [path |-> filePath, name |-> basename(filePath)],
    success |-> FALSE,
    error |-> message ]

\* the object of part_000:68-92 without its scoring property
successResult_unscored(filePath, exif, preview, hist, sharp, comp, opts, analysisTime) ==
  [ file |-> [ path |-> filePath, name |-> basename(filePath),
               size |-> IF "file" \in DOMAIN exif THEN exif.file.size ELSE 0,
               type |-> IF "file" \in DOMAIN exif
                        THEN OrDefault(exif.file.type, extname(filePath))
                        ELSE extname(filePath) ],
    success |-> TRUE,
    exif |-> exif,
    preview |-> [ width |-> preview.width, height |-> preview.height,
                  originalWidth |-> preview.originalWidth,
                  originalHeight |-> preview.originalHeight ],
    analysis |-> [histogram |-> hist, sharpness |-> sharp, composition |-> comp],
    timing |-> [total |-> analysisTime] ]

\* steps 5 and the return of part_000:60-92
successResult(filePath, exif, preview, hist, sharp, comp, opts, analysisTime) ==
  [ file |-> [ path |-> filePath, name |-> basename(filePath),
               size |-> IF "file" \in DOMAIN exif THEN exif.file.size ELSE 0,
               type |-> IF "file" \in DOMAIN exif
                        THEN OrDefault(exif.file.type, extname(filePath))
                        ELSE extname(filePath) ],
    success |-> TRUE,
    exif |-> exif,
    preview |-> [ width |-> preview.width, height |-> preview.height,
                  originalWidth |-> preview.originalWidth,
                  originalHeight |-> preview.originalHeight ],
    analysis |-> [histogram |-> hist, sharpness |-> sharp, composition |-> comp],
    scoring |-> calculateScores([ exif |-> exif, histogram |-> hist,
                                  sharpness |-> sharp, composition |-> comp ],
                                [mode |-> opts.mode, customWeights |-> opts.customWeights]),
    timing |-> [total |-> analysisTime] ]

\* analyzeImage from call to return: the promise it settles with, whatever
\* the order in which the two engines of step 3 complete
analyzeImage(filePath, opts) ==
  With(extractExif(filePath), LAMBDA exif :
  With(extractPreview(filePath), LAMBDA preview :
    IF preview.state = "rejected" THEN Resolved(caughtResult(filePath, MessageOf(preview)))
    ELSE IF preview.value.buffer = Null
    THEN Resolved(noPreviewResult(filePath, preview.value))
    ELSE With(EngineRuns[filePath], LAMBDA engines :
           IF engines.histogram.state = "rejected"
           THEN Resolved(caughtResult(filePath, MessageOf(engines.histogram)))
           ELSE IF engines.sharpness.state = "rejected"
           THEN Resolved(caughtResult(filePath, MessageOf(engines.sharpness)))
           ELSE IF ~opts.skipComposition /\ engines.composition.state = "rejected"
           THEN Resolved(caughtResult(filePath, MessageOf(engines.composition)))
           ELSE Resolved(successResult(filePath, exif, preview.value,
                                       engines.histogram.value, engines.sharpness.value,
                                       IF opts.skipComposition THEN Null
                                       ELSE engines.composition.value,
                                       opts, FileSystem[filePath].elapsed)))))


(***************************************************************************)
(* analyzeImages (part_000:112-148) as a state machine.  An analyzeImage   *)
(* call advances from one await to the next:                               *)
(*   "exif"        awaiting extractExif                                    *)
(*   "preview"     awaiting extractPreview                                 *)
(*   "engines"     awaiting Promise.all of analyzeHistogram and            *)
(*                 analyzeSharpness, which settle in either order          *)
(*   "composition" awaiting analyzeComposition                             *)
(*   "settled"     analyzeImage has settled, the map callback that awaits  *)
(*                 it has not resumed                                      *)
(*   "done"        the map callback has returned                           *)
(* The run is made with an onProgress callback that records its payloads.  *)
(***************************************************************************)
\* a slice that also takes the element at index end
slice_inclusive(array, start, end) == SubSeq(array, start + 1, Min2(end + 1, Len(array)))

\* array.slice(start, end) for 0 <= start <= end
slice(array, start, end) == SubSeq(array, start + 1, Min2(end, Len(array)))

\* the loop increment of part_000:123 skipping one more element
advance_skipping(index, step) == index + step + 1

\* the loop increment i += concurrency of part_000:123
advance(index, step) == index + step

\* a counter that goes up by two
increment_twice(count) == count + 2

\* completed++ of part_000:130; nothing is awaited between it and the call
\* of onProgress
increment(count) == count + 1

\* the task of a map callback that has just called analyzeImage(filePath)
started(filePath) ==
  [ pc |-> "exif", filePath |-> filePath, exif |-> Null, preview |-> Null,
    histogram |-> Null, sharpness |-> Null, promise |-> Null ]

\* analyzeImage settles
settle(t, promise) == [t EXCEPT !.pc = "settled", !.promise = promise]

\* analyzeImage going on to score without the sharpness result
afterEngines_unawaited(t, hist, sharp, opts) ==
  settle([t EXCEPT !.histogram = hist],
         Resolved(successResult(t.filePath, t.exif, t.preview, hist, Null, Null, opts,
                                FileSystem[t.filePath].elapsed)))

\* analyzeImage resumes after step 3 with both results
afterEngines(t, hist, sharp, opts) ==
  IF opts.skipComposition
  THEN settle([t EXCEPT !.histogram = hist, !.sharpness = sharp],
              Resolved(successResult(t.filePath, t.exif, t.preview, hist, sharp, Null, opts,
                                     FileSystem[t.filePath].elapsed)))
  ELSE [t EXCEPT !.pc = "composition", !.histogram = hist, !.sharpness = sharp]

InFlight == {k \in 1..Len(task) : task[k].pc \notin {"settled", "done"}}

\* the lists of at most MaxFiles distinct files, in every order
PathLists ==
  {list \in UNION {[1..n -> Files] : n \in 0..MaxFiles} :
     \A j, k \in DOMAIN list : list[j] = list[k] => j = k}

InitBatch ==
  /\ filePaths \in PathLists
  /\ concurrency \in 0..MaxConcurrency
  /\ analysisOptions \in {[skipComposition |-> s, mode |-> "general", customWeights |-> Null] :
                            s \in BOOLEAN}
  /\ world = EngineRuns
  /\ i = 0 /\ batch = {} /\ task = <<>> /\ results = <<>> /\ completed = 0
  /\ progress = <<>> /\ run = "loop"
  /\ IdleScore
  /\ IdleEngines
  /\ IdleOrganizer

\* the loop test succeeds: the slice is taken and every callback of the map
\* runs up to its first await
StartBatch ==
  /\ run = "loop" /\ i < Len(filePaths)
  /\ LET paths == slice(filePaths, i, i + concurrency)
     IN /\ batch' = (Len(task) + 1)..(Len(task) + Len(paths))
        /\ task' = task \o [k \in 1..Len(paths) |-> started(paths[k])]
  /\ run' = "awaiting"
  /\ UNCHANGED <<filePaths, concurrency, analysisOptions, world, i, results, completed, progress>>
  /\ UNCHANGED scoreVars
  /\ UNCHANGED engineVars
  /\ UNCHANGED organizerVars

ExifSettles(k) ==
  /\ task[k].pc = "exif"
  /\ LET t == task[k]
     IN task' = [task EXCEPT ![k] = [t EXCEPT !.pc = "preview", !.exif = extractExif(t.filePath)]]
  /\ UNCHANGED <<filePaths, concurrency, analysisOptions, world, i, batch, results, completed,
                 progress, run>>
  /\ UNCHANGED scoreVars
  /\ UNCHANGED engineVars
  /\ UNCHANGED organizerVars

PreviewSettles(k) ==
  /\ task[k].pc = "preview"
  /\ With(task[k], LAMBDA t :
     With(extractPreview(t.filePath), LAMBDA preview :
       task' = [task EXCEPT ![k] =
                   IF preview.state = "rejected"
                   THEN settle(t, Resolved(caughtResult(t.filePath, MessageOf(preview))))
                   ELSE IF preview.value.buffer = Null
                   THEN settle([t EXCEPT !.preview = preview.value],
                               Resolved(noPreviewResult(t.filePath, preview.value)))
                   ELSE [t EXCEPT !.pc = "engines", !.preview = preview.value]]))
  /\ UNCHANGED <<filePaths, concurrency, analysisOptions, world, i, batch, results, completed,
                 progress, run>>
  /\ UNCHANGED scoreVars
  /\ UNCHANGED engineVars
  /\ UNCHANGED organizerVars

\* analyzeHistogram settles; when analyzeSharpness has settled before,
\* Promise.all resolves and analyzeImage resumes.  A rejection rejects
\* Promise.all at once and is caught.
HistogramSettles(k) ==
  /\ task[k].pc = "engines" /\ task[k].histogram = Null
  /\ With(task[k], LAMBDA t :
     With(world[t.filePath].histogram, LAMBDA promise :
       task' = [task EXCEPT ![k] =
                   IF promise.state = "rejected"
                   THEN settle(t, Resolved(caughtResult(t.filePath, MessageOf(promise))))
                   ELSE IF t.sharpness = Null THEN [t EXCEPT !.histogram = promise.value]
                   ELSE afterEngines(t, promise.value, t.sharpness, analysisOptions)]))
  /\ UNCHANGED <<filePaths, concurrency, analysisOptions, world, i, batch, results, completed,
                 progress, run>>
  /\ UNCHANGED scoreVars
  /\ UNCHANGED engineVars
  /\ UNCHANGED organizerVars

SharpnessSettles(k) ==
  /\ task[k].pc = "engines" /\ task[k].sharpness = Null
  /\ With(task[k], LAMBDA t :
     With(world[t.filePath].sharpness, LAMBDA promise :
       task' = [task EXCEPT ![k] =
                   IF promise.state = "rejected"
                   THEN settle(t, Resolved(caughtResult(t.filePath, MessageOf(promise))))
                   ELSE IF t.histogram = Null THEN [t EXCEPT !.sharpness = promise.value]
                   ELSE afterEngines(t, t.histogram, promise.value, analysisOptions)]))
  /\ UNCHANGED <<filePaths, concurrency, analysisOptions, world, i, batch, results, completed,
                 progress, run>>
  /\ UNCHANGED scoreVars
  /\ UNCHANGED engineVars
  /\ UNCHANGED organizerVars

CompositionSettles(k) ==
  /\ task[k].pc = "composition"
  /\ With(task[k], LAMBDA t :
     With(world[t.filePath].composition, LAMBDA promise :
       task' = [task EXCEPT ![k] =
                   IF promise.state = "rejected"
                   THEN settle(t, Resolved(caughtResult(t.filePath, MessageOf(promise))))
                   ELSE settle(t, Resolved(successResult(t.filePath, t.exif, t.preview,
                                                         t.histogram, t.sharpness, promise.value,
                                                         analysisOptions,
                                                         FileSystem[t.filePath].elapsed)))]))
  /\ UNCHANGED <<filePaths, concurrency, analysisOptions, world, i, batch, results, completed,
                 progress, run>>
  /\ UNCHANGED scoreVars
  /\ UNCHANGED engineVars
  /\ UNCHANGED organizerVars

\* the map callback resumes after `await analyzeImage` (part_000:129-140); a
\* rejected analyzeImage would reject the callback, Promise.all and the run
Complete(k) ==
  /\ task[k].pc = "settled"
  /\ task' = [task EXCEPT ![k].pc = "done"]
  /\ IF task[k].promise.state = "rejected"
     THEN /\ run' = IF run = "awaiting" /\ k \in batch THEN "rejected" ELSE run
          /\ UNCHANGED <<completed, progress>>
     ELSE /\ completed' = increment(completed)
          /\ progress' = Append(progress, [ completed |-> increment(completed),
                                            total |-> Len(filePaths),
                                            current |-> task[k].filePath,
                                            result |-> task[k].promise.value ])
          /\ UNCHANGED run
  /\ UNCHANGED <<filePaths, concurrency, analysisOptions, world, i, batch, results>>
  /\ UNCHANGED scoreVars
  /\ UNCHANGED engineVars
  /\ UNCHANGED organizerVars

\* Promise.all resolves with the callbacks' results in the order of the
\* slice; they are pushed and the loop index advances (part_000:144, 123)
EndBatch ==
  /\ run = "awaiting"
  /\ \A k \in batch : task[k].pc = "done" /\ task[k].promise.state = "resolved"
  /\ results' = results \o [k \in 1..Cardinality(batch) |-> task[Len(results) + k].promise.value]
  /\ i' = advance(i, concurrency)
  /\ batch' = {}
  /\ run' = "loop"
  /\ UNCHANGED <<filePaths, concurrency, analysisOptions, world, task, completed, progress>>
  /\ UNCHANGED scoreVars
  /\ UNCHANGED engineVars
  /\ UNCHANGED organizerVars

\* the loop test fails: analyzeImages returns results
Return ==
  /\ run = "loop" /\ i >= Len(filePaths)
  /\ run' = "resolved"
  /\ UNCHANGED <<filePaths, concurrency, analysisOptions, world, i, batch, task, results,
                 completed, progress>>
  /\ UNCHANGED scoreVars
  /\ UNCHANGED engineVars
  /\ UNCHANGED organizerVars

NextBatch ==
  \/ StartBatch
  \/ \E k \in 1..Len(task) : ExifSettles(k)
  \/ \E k \in 1..Len(task) : PreviewSettles(k)
  \/ \E k \in 1..Len(task) : HistogramSettles(k)
  \/ \E k \in 1..Len(task) : SharpnessSettles(k)
  \/ \E k \in 1..Len(task) : CompositionSettles(k)
  \/ \E k \in 1..Len(task) : Complete(k)
  \/ EndBatch
  \/ Return

SpecBatch == InitBatch /\ [][NextBatch]_vars

(***************************************************************************)
(* Claims about analyzeImage and analyzeImages                             *)
(***************************************************************************)
\* a scoring object with its sub-scores, overall, rating, classification,
\* issues and keeperProbability
WellFormedScoring(result) ==
  /\ "scoring" \in DOMAIN result
  /\ {"scores", "overall", "rating", "classification", "issues", "keeperProbability"}
       \subseteq DOMAIN result.scoring

\* the analyzeImage calls that have settled
Settled == {k \in 1..Len(task) : task[k].promise # Null}

HasPreview(filePath) ==
  extractPreview(filePath).state = "resolved" /\ extractPreview(filePath).value.buffer # Null

ResultsInOrder ==
  /\ run # "rejected"
  /\ Len(results) <= Len(filePaths)
  /\ \A k \in 1..Len(results) :
       /\ results[k].file.path = filePaths[k]
       /\ results[k] = analyzeImage(filePaths[k], analysisOptions).value
  /\ run = "resolved" => Len(results) = Len(filePaths)

\* the awaits and resumptions an analyzeImage call at position k still has
\* before its callback has returned
StepsLeft(k) ==
  CASE task[k].pc = "exif" -> 6
    [] task[k].pc = "preview" -> 5
    [] task[k].pc = "engines" ->
         IF task[k].histogram = Null /\ task[k].sharpness = Null THEN 4 ELSE 3
    [] task[k].pc = "composition" -> 2
    [] task[k].pc = "settled" -> 1
    [] OTHER -> 0

\* the steps a run still has before analyzeImages returns: 8 for each path
\* not yet mapped, the steps left of each call, and the position of the loop
StepsToReturn ==
  8 * (Len(filePaths) - Len(task))
    + SumRange(StepsLeft, 1, Len(task))
    + (CASE run = "awaiting" -> 2 [] run = "loop" -> 1 [] OTHER -> 0)

C6_InFlightAtMostConcurrency == Cardinality(InFlight) <= concurrency

\* a full batch in flight while files remain for a later batch
C6_Witness ==
  /\ concurrency >= 2 /\ Cardinality(InFlight) = concurrency
  /\ Len(filePaths) > concurrency

\* ---------------------------------------------------------------------------
\* A photo described by what the analyzers measured on it: the score
\* functions of the analyzers followed by calculateScores
\* ---------------------------------------------------------------------------

\* the luminance histogram of a picture whose pixels are half of tone lo and
\* half of tone hi (in percent, as normalize leaves it)
luminanceOfTones(lo, hi) ==
  [k \in Levels |-> IF lo = hi THEN (IF k = lo THEN I(100) ELSE I(0))
                    ELSE IF k = lo \/ k = hi THEN I(50) ELSE I(0)]

\* the result analyzeHistogram builds from the histogram (the fields that
\* calculateScores reads, and the histogram itself)
histogramResult(hist) ==
  With(analyzeExposure(hist, Null), LAMBDA exposureAnalysis :
  With(analyzeClipping(hist), LAMBDA clippingAnalysis :
  With(analyzeDynamicRange(hist), LAMBDA dynamicRange :
    [ histogram |-> [luminance |-> hist.luminance],
      exposure |-> exposureAnalysis,
      clipping |-> clippingAnalysis,
      dynamicRange |-> dynamicRange,
      score |-> calculateExposureScore_histogram(exposureAnalysis, clippingAnalysis,
                                                 dynamicRange) ])))

\* the result detectBlurType builds from the two directional gradients and
\* the consistency of the gradient directions
blurResult(overallSharpness, horizontalGradient, verticalGradient, gradientConsistency) ==
  With(blurFound(overallSharpness,
                 FDiv(horizontalGradient, OrElse(verticalGradient, I(1))),
                 gradientConsistency,
                 FDiv(FAdd(horizontalGradient, verticalGradient), I(2))), LAMBDA found :
    [ type |-> found.type,
      severity |-> FMin(I(1), FMax(I(0), found.severity)),
      direction |-> found.direction ])

\* the result analyzeSharpness builds from its measurements (the fields that
\* calculateScores reads)
sharpnessResult(overallSharpness, blurAnalysis, edgeAnalysis, focusPlane) ==
  With(calculateSharpnessScore_sharpness(overallSharpness, blurAnalysis, edgeAnalysis,
                                         focusPlane), LAMBDA score :
    [ overall |-> [ variance |-> FRoundTo(overallSharpness, 100),
                    score |-> score,
                    assessment |-> getSharpnessAssessment(score) ],
      blur |-> blurAnalysis,
      edges |-> edgeAnalysis,
      focusPlane |-> focusPlane ])

\* Laplacian variances, gradients with their consistency, edges and focus
\* planes that a preview can measure
VarianceInputs == {I(0), I(10), I(600)}

GradientInputs ==
  { <<I(10), I(0), Frac(1, 2)>>, <<I(5), I(5), I(1)>>,
    <<I(5), I(5), Frac(1, 2)>>, <<I(25), I(25), Frac(1, 2)>> }

EdgeInputs ==
  { [ averageStrength |-> I(s), strongEdgeRatio |-> I(r),
      assessment |-> IF s > 50 THEN "strong" ELSE IF s > 25 THEN "moderate" ELSE "weak" ]
    : s \in {50, 90}, r \in {0, 6} }

FocusPlaneInputs ==
  { [position |-> p, sharpestRegions |-> <<p, "top">>] : p \in {"center", "top-left"} }

\* pairs of tones: those of the first two lines have a mean brightness of 130,
\* the others lie on and next to the edges of the exposure bands
ToneInputs ==
  { <<130, 130>>, <<110, 150>>, <<105, 155>>, <<104, 156>>, <<70, 190>>,
    <<40, 220>>, <<20, 240>>,
    <<0, 0>>, <<60, 100>>, <<79, 80>>, <<80, 80>>, <<99, 100>>, <<100, 100>>,
    <<160, 160>>, <<160, 161>>, <<179, 180>>, <<180, 180>>, <<180, 181>>, <<255, 255>> }

MeasuredExif == {Null, Ex(100, TRUE), Ex(3200, FALSE)}

MeasuredComposition ==
  {Null, createEmptyAnalysis_composition, Co(1, FALSE, 0)}

InitProfile ==
  /\ IdleScore
  /\ IdleBatch
  /\ IdleEngines
  /\ IdleOrganizer

\* the analyzers score what they measured and calculateScores scores the photo
ScoreMeasured ==
  /\ Len(scoring) = 0
  /\ \E tones \in ToneInputs :
       With(histogramResult([luminance |-> luminanceOfTones(tones[1], tones[2])]),
            LAMBDA hist :
       \E variance \in VarianceInputs, gradient \in GradientInputs,
          edge \in EdgeInputs, plane \in FocusPlaneInputs :
         With(sharpnessResult(variance,
                              blurResult(variance, gradient[1], gradient[2], gradient[3]),
                              edge, plane), LAMBDA sharp :
         \E exif \in MeasuredExif, comp \in MeasuredComposition,
            mode \in {"general", "landscape"} :
           With([exif |-> exif, histogram |-> hist, sharpness |-> sharp,
                 composition |-> comp], LAMBDA an :
             /\ analyses' = <<an>>
             /\ options' = <<Opt(mode)>>
             /\ scoring' = <<calculateScores(an, Opt(mode))>>)))
  /\ UNCHANGED <<batchVars, engineVars, organizerVars>>

NextProfile == ScoreMeasured

SpecProfile == InitProfile /\ [][NextProfile]_vars

\* the photo of call k has ISO 100, no clipped shadows or highlights, a mean
\* brightness of 130 and an average edge strength of 90, and was scored with
\* the general weights
ReferencePhoto(k) ==
  /\ options[k].mode = "general"
  /\ analyses[k].exif # Null
  /\ analyses[k].exif.exposure.iso = 100
  /\ FEq(analyses[k].histogram.clipping.shadows.clipped, I(0))
  /\ FEq(analyses[k].histogram.clipping.highlights.clipped, I(0))
  /\ FEq(analyses[k].histogram.exposure.meanBrightness, I(130))
  /\ FEq(analyses[k].sharpness.edges.averageStrength, I(90))

\* a motion or defocus blur severe enough for calculateSharpnessScore to subtract
BlurPenalised(k) ==
  /\ analyses[k].sharpness.blur.type \in {"motion", "defocus"}
  /\ FGt(analyses[k].sharpness.blur.severity, Frac(6, 10))

\* C11 as stated: under the general weights, with ISO 100, no clipping, mean
\* brightness 130 and edge strength 90, whatever the other measurements are, the
\* sharpness sub-score is at least 90, the exposure sub-score at least 85, the
\* noise sub-score 100 and the overall score at least 80.
C11_ReferencePhotoScores ==
  \A k \in Returned :
    ReferencePhoto(k) =>
      /\ FGe(scoring[k].scores.sharpness, I(90))
      /\ FGe(scoring[k].scores.exposure, I(85))
      /\ FEq(scoring[k].scores.noise, I(100))
      /\ FGe(scoring[k].overall, I(80))

\* C11 (amended): for such a photo the noise sub-score is 100; the sharpness
\* sub-score is at least 83, and at least 90 unless a motion or defocus blur of
\* severity above 0.6 was detected; the exposure sub-score is at least 80, and at
\* least 85 unless the dynamic range is very limited; the overall score is at
\* least 61.
C11_ReferencePhotoBounds ==
  \A k \in Returned :
    ReferencePhoto(k) =>
      /\ FEq(scoring[k].scores.noise, I(100))
      /\ FGe(scoring[k].scores.sharpness, I(83))
      /\ ~BlurPenalised(k) => FGe(scoring[k].scores.sharpness, I(90))
      /\ FGe(scoring[k].scores.exposure, I(80))
      /\ analyses[k].histogram.dynamicRange.assessment # "very-limited"
           => FGe(scoring[k].scores.exposure, I(85))
      /\ FGe(scoring[k].overall, I(61))

\* a reference photo with a severe motion blur and a very limited dynamic range
\* was scored: sharpness 83, exposure 80 and an overall score below 80
C11_Witness ==
  \E k \in Returned :
    /\ ReferencePhoto(k)
    /\ BlurPenalised(k)
    /\ analyses[k].histogram.dynamicRange.assessment = "very-limited"
    /\ FEq(scoring[k].scores.sharpness, I(83))
    /\ FEq(scoring[k].scores.exposure, I(80))
    /\ FLt(scoring[k].overall, I(80))

\* C12: the engines are deterministic: a second run of analyzeSharpness on the
\* same buffer returns the result of the first (blur type, severity, the
\* direction-consistency metric and the score included), and so do second runs
\* of analyzeHistogram and analyzeComposition.
C12_EnginesDeterministic ==
  /\ sharpness # Null =>
       \A rnd \in RandomSources : analyzeSharpness(imageBuffer, rnd) = sharpness
  /\ histogram # Null => analyzeHistogram(imageBuffer) = histogram
  /\ composition # Null => analyzeComposition(imageBuffer) = composition

\* the row of the thresholds table that a returned overall score falls in
TableRating(overall) ==
  IF FGe(overall, I(72)) THEN 5
  ELSE IF FGe(overall, I(58)) THEN 4
  ELSE IF FGe(overall, I(45)) THEN 3
  ELSE IF FGe(overall, I(30)) THEN 2 ELSE 1

TableCategory(overall) ==
  IF FGe(overall, I(72)) THEN "select"
  ELSE IF FGe(overall, I(58)) THEN "good"
  ELSE IF FGe(overall, I(45)) THEN "review"
  ELSE IF FGe(overall, I(30)) THEN "maybe" ELSE "reject"

\* C13: the returned overall and rating agree with the thresholds table (5 from
\* 72, 4 from 58 to 71, 3 from 45 to 57, 2 from 30 to 44, 1 below 30), and
\* unless an auto-reject condition holds the category is the one of the same row.
C13_RatingMatchesTable ==
  \A k \in Returned :
    /\ scoring[k].rating = TableRating(scoring[k].overall)
    /\ scoring[k].classification.autoReject = Null
         => scoring[k].classification.category = TableCategory(scoring[k].overall)

(***************************************************************************)
(* fileOrganizer.js on a file system                                       *)
(*                                                                         *)
(* A directory is the sequence of its segments, a file name is a base and  *)
(* an extension, a path is a directory with a file name.  The base of a    *)
(* name is the sequence of the parts that the separator joins, and a part  *)
(* is a sequence of strings.  A file system d has a set of directories     *)
(* d.dirs and a function d.files from the paths that exist to what is      *)
(* stored there.  All directories are on one device (rename never fails    *)
(* with EXDEV).                                                            *)
(***************************************************************************)
\* path.join(dir, name) for a file name, path.join(dir, folder) for a folder
join(dir, name) == [dir |-> dir, base |-> name.base, ext |-> name.ext]

join_folder(dir, folder) == Append(dir, folder)

\* path.dirname(p), path.basename(p) and path.extname(p) of a path or a name
dirname(p) == p.dir

basename_path(p) == [base |-> p.base, ext |-> p.ext]

extname_path(p) == p.ext

\* ext.toLowerCase() on the extensions of the model
toLowerCase(ext) ==
  IF ext = ".JPG" THEN ".jpg"
  ELSE IF ext = ".NEF" THEN ".nef"
  ELSE IF ext = ".XMP" THEN ".xmp"
  ELSE ext

\* fs.access(p): whether p exists
access(d, p) == p \in DOMAIN d.files

\* fs.mkdir(dir, {recursive: true})
mkdir(d, dir) == [d EXCEPT !.dirs = @ \cup {SubSeq(dir, 1, n) : n \in 1..Len(dir)}]

\* fs.rename(src, dst): ENOENT without the source or the directory of the target
rename(d, src, dst) ==
  IF ~access(d, src) \/ dirname(dst) \notin d.dirs THEN Threw
  ELSE Ok([d EXCEPT !.files = [q \in (DOMAIN d.files \ {src}) \cup {dst} |->
                                 IF q = dst THEN d.files[src] ELSE d.files[q]]])

\* fs.copyFile(src, dst)
copyFile(d, src, dst) ==
  IF ~access(d, src) \/ dirname(dst) \notin d.dirs THEN Threw
  ELSE Ok([d EXCEPT !.files = [q \in DOMAIN d.files \cup {dst} |->
                                 IF q = dst THEN d.files[src] ELSE d.files[q]]])

\* fs.unlink(p)
unlink(d, p) ==
  IF ~access(d, p) THEN Threw
  ELSE Ok([d EXCEPT !.files = [q \in DOMAIN d.files \ {p} |-> d.files[q]]])

\* fs.writeFile(p, content)
writeFile(d, p, content) ==
  IF dirname(p) \notin d.dirs THEN Threw
  ELSE Ok([d EXCEPT !.files = [q \in DOMAIN d.files \cup {p} |->
                                 IF q = p THEN content ELSE d.files[q]]])

\* String(n) for an integer n >= 0, as the sequence of its digits
DigitOf(n) ==
  IF n = 0 THEN "0" ELSE IF n = 1 THEN "1" ELSE IF n = 2 THEN "2" ELSE IF n = 3 THEN "3"
  ELSE IF n = 4 THEN "4" ELSE IF n = 5 THEN "5" ELSE IF n = 6 THEN "6" ELSE IF n = 7 THEN "7"
  ELSE IF n = 8 THEN "8" ELSE "9"

RECURSIVE String(_)
String(n) == IF n < 10 THEN <<DigitOf(n)>> ELSE Append(String(n \div 10), DigitOf(n % 10))

\* str.padStart(digits, '0')
RECURSIVE padStart(_, _)
padStart(str, digits) == IF Len(str) >= digits THEN str ELSE padStart(<<"0">> \o str, digits)

sequenceDigits == 3

\* generateFilename with the default options but includeScore; the base of
\* the name is the sequence of the parts joined by the separator
generateFilename(analysis, sequence, includeScore) ==
  LET scored == "scoring" \in DOMAIN analysis
      categoryPart == IF scored /\ analysis.scoring.classification.category # ""
                      THEN <<<<analysis.scoring.classification.category>>>> ELSE <<>>
      scorePart == IF includeScore /\ scored
                   THEN <<<<"s">> \o String(analysis.scoring.overall)>> ELSE <<>>
      ratingPart == IF scored /\ analysis.scoring.rating # 0
                    THEN <<<<"r">> \o String(analysis.scoring.rating)>> ELSE <<>>
  IN [ base |-> <<padStart(String(sequence), sequenceDigits)>> \o categoryPart \o scorePart
                  \o ratingPart,
       ext |-> toLowerCase(extname_path(analysis.file.name)) ]

\* createDirectoryStructure with createCategories: the file system afterwards
\* and the directories returned
createDirectoryStructure(d, baseDir) ==
  [ disk |-> [d EXCEPT !.dirs = mkdir(d, baseDir).dirs
                                  \cup UNION {mkdir(d, join_folder(baseDir, folders[key])).dirs :
                                               key \in DOMAIN folders}],
    dirs |-> [base |-> baseDir,
              categories |-> [key \in DOMAIN folders |-> join_folder(baseDir, folders[key])]] ]

\* the first of base_1, base_2, ... in destDir that does not exist
\* (fileOrganizer.js:112-125)
RECURSIVE uniquePath(_, _, _, _)
uniquePath(d, destDir, newFilename, counter) ==
  With(join(destDir, [base |-> Append(newFilename.base, String(counter)), ext |-> newFilename.ext]),
       LAMBDA candidate :
    IF access(d, candidate) THEN uniquePath(d, destDir, newFilename, counter + 1)
    ELSE candidate)

\* moveFile: the file system afterwards and the result object
moveFile(d, sourcePath, destDir, newFilename, copy, overwrite, dryRun) ==
  With(IF access(d, join(destDir, newFilename)) /\ ~overwrite
       THEN uniquePath(d, destDir, newFilename, 1)
       ELSE join(destDir, newFilename), LAMBDA destPath :
    IF dryRun
    THEN [ disk |-> d,
           result |-> [ success |-> TRUE, dryRun |-> TRUE, source |-> sourcePath,
                        destination |-> destPath,
                        action |-> IF copy THEN "copy" ELSE "move" ] ]
    ELSE With(IF copy THEN copyFile(d, sourcePath, destPath)
              ELSE rename(d, sourcePath, destPath), LAMBDA done :
           IF done.threw
           THEN [ disk |-> d,
                  result |-> [ success |-> FALSE, source |-> sourcePath,
                               destination |-> destPath, error |-> "ENOENT" ] ]
           ELSE [ disk |-> done.value,
                  result |-> [ success |-> TRUE, source |-> sourcePath,
                               destination |-> destPath,
                               action |-> IF copy THEN "copy" ELSE "move" ] ]))

sidecarExtensions == <<".xmp", ".XMP", ".pp3", ".dop">>

\* moveSidecarFiles from the k-th extension on: the file system afterwards
\* and the results (which organizeImages drops)
RECURSIVE moveSidecarFiles_from(_, _, _, _, _, _, _)
moveSidecarFiles_from(d, k, sourcePath, destDir, newBasename, copy, dryRun) ==
  IF k > Len(sidecarExtensions) THEN [disk |-> d, results |-> <<>>]
  ELSE
    With(join(dirname(sourcePath), [base |-> sourcePath.base, ext |-> sidecarExtensions[k]]),
         LAMBDA sidecarSource :
      IF ~access(d, sidecarSource)
      THEN moveSidecarFiles_from(d, k + 1, sourcePath, destDir, newBasename, copy, dryRun)
      ELSE
        With(moveFile(d, sidecarSource, destDir,
                      [base |-> newBasename, ext |-> toLowerCase(sidecarExtensions[k])],
                      copy, FALSE, dryRun), LAMBDA moved :
        With(moveSidecarFiles_from(moved.disk, k + 1, sourcePath, destDir, newBasename,
                                   copy, dryRun), LAMBDA rest :
          [disk |-> rest.disk, results |-> <<moved.result>> \o rest.results])))

moveSidecarFiles(d, sourcePath, destDir, newBasename, copy, dryRun) ==
  moveSidecarFiles_from(d, 1, sourcePath, destDir, newBasename, copy, dryRun)

\* the manifest generateManifest writes for the operations
manifestOf(operations) ==
  [ version |-> "1.0",
    operations |->
      [k \in 1..Len(operations) |->
         [ original |-> [ path |-> operations[k].source,
                          name |-> basename_path(operations[k].source) ],
           result |-> [ path |-> operations[k].destination,
                        name |-> basename_path(operations[k].destination) ],
           action |-> IF "action" \in DOMAIN operations[k] THEN operations[k].action ELSE Null,
           success |-> operations[k].success ]],
    summary |-> [ total |-> Len(operations),
                  successful |-> Cardinality({k \in 1..Len(operations) : operations[k].success}),
                  failed |-> Cardinality({k \in 1..Len(operations) : ~operations[k].success}) ] ]

manifestName == [base |-> <<<<"_manifest">>>>, ext |-> ".json"]

generateManifest(d, operations, outputPath) == writeFile(d, outputPath, manifestOf(operations))

\* [...analyzedImages].filter(img => img.success)
RECURSIVE successful(_)
successful(images) ==
  IF images = <<>> THEN <<>>
  ELSE IF Head(images).success THEN <<Head(images)>> \o successful(Tail(images))
  ELSE successful(Tail(images))

\* img.scoring?.overall || 0
overallOf(img) == IF "scoring" \in DOMAIN img THEN img.scoring.overall ELSE 0

\* .sort((a, b) => (b.scoring?.overall || 0) - (a.scoring?.overall || 0)): the
\* sort is stable, an image goes before the first one with a lower score
RECURSIVE insertByScore(_, _)
insertByScore(img, sorted) ==
  IF sorted = <<>> THEN <<img>>
  ELSE IF overallOf(Head(sorted)) < overallOf(img) THEN <<img>> \o sorted
  ELSE <<Head(sorted)>> \o insertByScore(img, Tail(sorted))

RECURSIVE sortByScore(_)
sortByScore(images) ==
  IF images = <<>> THEN <<>>
  ELSE insertByScore(images[Len(images)], sortByScore(SubSeq(images, 1, Len(images) - 1)))

\* analysis.scoring?.classification?.category || 'review', then its directory
destDirOf(dirs, analysis) ==
  With(IF "scoring" \in DOMAIN analysis /\ analysis.scoring.classification.category # ""
       THEN analysis.scoring.classification.category ELSE "review", LAMBDA category :
    IF category \in DOMAIN dirs.categories THEN dirs.categories[category]
    ELSE dirs.categories.review)

\* the loop of organizeImages from the k-th sorted image on (sequence = k):
\* the file system afterwards and the operations
RECURSIVE organizeLoop(_, _, _, _, _)
organizeLoop(d, dirs, sorted, k, opts) ==
  IF k > Len(sorted) THEN [disk |-> d, operations |-> <<>>]
  ELSE
    With(sorted[k], LAMBDA analysis :
    With(destDirOf(dirs, analysis), LAMBDA destDir :
    With(generateFilename(analysis, k, opts.includeScore), LAMBDA newFilename :
    With(moveFile(d, analysis.file.path, destDir, newFilename, opts.copy, FALSE, opts.dryRun),
         LAMBDA moved :
    With(IF opts.moveSidecars /\ moved.result.success /\ ~opts.dryRun
         THEN moveSidecarFiles(moved.disk, analysis.file.path, destDir, newFilename.base,
                               opts.copy, opts.dryRun).disk
         ELSE moved.disk, LAMBDA after :
    With(organizeLoop(after, dirs, sorted, k + 1, opts), LAMBDA rest :
      [ disk |-> rest.disk,
        operations |-> <<[analysis |-> analysis] @@ moved.result>> \o rest.operations ]))))))

\* organizeImages: the file system afterwards and the promise
organizeImages(d, analyzedImages, outputDir, opts) ==
  With(createDirectoryStructure(d, outputDir), LAMBDA created :
  With(organizeLoop(created.disk, created.dirs, sortByScore(successful(analyzedImages)), 1, opts),
       LAMBDA looped :
  With(IF opts.createManifest /\ ~opts.dryRun
       THEN generateManifest(looped.disk, looped.operations, join(outputDir, manifestName))
       ELSE Ok(looped.disk), LAMBDA written :
    IF written.threw THEN [disk |-> looped.disk, promise |-> Rejected]
    ELSE [ disk |-> written.value,
           promise |-> Resolved(
             [ operations |-> looped.operations,
               summary |-> [ total |-> Len(looped.operations),
                             successful |-> Cardinality({k \in 1..Len(looped.operations) :
                                                           looped.operations[k].success}),
                             failed |-> Cardinality({k \in 1..Len(looped.operations) :
                                                       ~looped.operations[k].success}) ],
               outputDir |-> outputDir,
               manifestPath |-> IF opts.createManifest THEN join(outputDir, manifestName)
                                ELSE Null ]) ])))

\* the loop of restoreFromManifest from the k-th operation on
RECURSIVE restoreLoop(_, _, _, _)
restoreLoop(d, operations, k, dryRun) ==
  IF k > Len(operations) THEN [disk |-> d, results |-> <<>>]
  ELSE IF ~operations[k].success THEN restoreLoop(d, operations, k + 1, dryRun)
  ELSE
    With(operations[k], LAMBDA op :
    With(IF dryRun THEN Ok(d) ELSE rename(d, op.result.path, op.original.path), LAMBDA done :
    With(restoreLoop(IF done.threw THEN d ELSE done.value, operations, k + 1, dryRun),
         LAMBDA rest :
      [ disk |-> rest.disk,
        results |->
          << IF done.threw
             THEN [ success |-> FALSE, from |-> op.result.path, to |-> op.original.path,
                    error |-> "ENOENT" ]
             ELSE IF dryRun
             THEN [ success |-> TRUE, dryRun |-> TRUE, from |-> op.result.path,
                    to |-> op.original.path ]
             ELSE [success |-> TRUE, from |-> op.result.path, to |-> op.original.path] >>
          \o rest.results ])))

\* restoreFromManifest: fs.readFile rejects when there is no manifest
restoreFromManifest(d, manifestPath, dryRun) ==
  IF ~access(d, manifestPath) THEN [disk |-> d, promise |-> RejectedWith("ENOENT")]
  ELSE With(restoreLoop(d, d.files[manifestPath].operations, 1, dryRun), LAMBDA looped :
         [disk |-> looped.disk, promise |-> Resolved(looped.results)])

(***************************************************************************)
(* organizeImages, then restoreFromManifest                                *)
(***************************************************************************)
inputDir == <<"in">>

outputDir == <<"out">>

Photo1 == [dir |-> inputDir, base |-> <<<<"IMG_1">>>>, ext |-> ".jpg"]

Photo2 == [dir |-> inputDir, base |-> <<<<"IMG_2">>>>, ext |-> ".NEF"]

Missing == [dir |-> inputDir, base |-> <<<<"IMG_3">>>>, ext |-> ".jpg"]

\* the sidecar files that may lie next to the photos
Sidecars ==
  { [dir |-> inputDir, base |-> <<<<"IMG_1">>>>, ext |-> ".xmp"],
    [dir |-> inputDir, base |-> <<<<"IMG_2">>>>, ext |-> ".XMP"],
    [dir |-> inputDir, base |-> <<<<"IMG_2">>>>, ext |-> ".pp3"] }

\* a result of analyzeImage as organizeImages reads it
Analysed(p, overall, rating, category) ==
  [ file |-> [path |-> p, name |-> basename_path(p)],
    success |-> TRUE,
    scoring |-> [overall |-> overall, rating |-> rating, classification |-> [category |-> category]] ]

Unanalysed(p) ==
  [ file |-> [path |-> p, name |-> basename_path(p), error |-> "Failed to extract preview"],
    success |-> FALSE,
    error |-> "Could not extract preview from file" ]

AnalysedLists ==
  { <<>>,
    <<Analysed(Photo1, 80, 5, "select")>>,
    <<Analysed(Photo1, 50, 3, "review"), Analysed(Photo2, 80, 5, "select")>>,
    <<Analysed(Photo1, 80, 5, "select"), Analysed(Photo2, 80, 5, "select")>>,
    <<Analysed(Photo1, 80, 5, "select"), Unanalysed(Photo2)>>,
    <<Analysed(Photo1, 20, 1, "reject"), Analysed(Missing, 80, 5, "select")>>,
    <<Analysed(Photo2, 62, 4, "good"), Analysed(Photo2, 62, 4, "good")>> }

\* a file that already has the name the first select of score 80 is given
Taken ==
  [ dir |-> join_folder(outputDir, folders.select),
    base |-> <<<<"0", "0", "1">>, <<"select">>, <<"s", "8", "0">>, <<"r", "5">>>>,
    ext |-> ".jpg" ]

\* the file systems the specification starts from: the two photos, any of
\* their sidecars and, in an output directory of an earlier run, the file Taken
Disks ==
  { [ dirs |-> {inputDir} \cup (IF taken THEN {outputDir, dirname(Taken)} ELSE {}),
      files |-> [q \in {Photo1, Photo2} \cup sidecars \cup (IF taken THEN {Taken} ELSE {}) |->
                   [data |-> q.base, was |-> q.ext]] ]
    : sidecars \in SUBSET Sidecars, taken \in BOOLEAN }

OrganizeOptions ==
  [copy : BOOLEAN, dryRun : BOOLEAN, includeScore : {TRUE}, moveSidecars : BOOLEAN,
   createManifest : BOOLEAN]

InitOrganize ==
  /\ disk \in Disks
  /\ diskBefore = Null /\ organized = Null /\ restored = Null
  /\ duplicates = Null /\ removed = Null /\ bursts = Null
  /\ IdleScore
  /\ IdleBatch
  /\ IdleEngines

OrganizeImages ==
  /\ organized = Null
  /\ \E analyzedImages \in AnalysedLists, opts \in OrganizeOptions :
       With(organizeImages(disk, analyzedImages, outputDir, opts), LAMBDA done :
         /\ disk' = done.disk
         /\ diskBefore' = disk
         /\ organized' = [ analyzedImages |-> analyzedImages, outputDir |-> outputDir,
                           options |-> opts, promise |-> done.promise ])
  /\ UNCHANGED <<restored, duplicates, removed, bursts>>
  /\ UNCHANGED <<scoreVars, batchVars, engineVars>>

RestoreFromManifest ==
  /\ organized # Null
  /\ restored = Null
  /\ \E dryRun \in BOOLEAN :
       With(restoreFromManifest(disk, join(organized.outputDir, manifestName), dryRun),
            LAMBDA done :
         /\ disk' = done.disk
         /\ restored' = [dryRun |-> dryRun, promise |-> done.promise])
  /\ UNCHANGED <<diskBefore, organized, duplicates, removed, bursts>>
  /\ UNCHANGED <<scoreVars, batchVars, engineVars>>

NextOrganize == OrganizeImages \/ RestoreFromManifest

SpecOrganize == InitOrganize /\ [][NextOrganize]_vars

\* C14: organizeImages with dryRun: true leaves the file system as it was: no
\* directory is created and no file is created, moved, copied or written.
C14_DryRunLeavesDiskUnchanged ==
  (organized # Null /\ restored = Null /\ organized.options.dryRun) => disk = diskBefore

\* organizeImages ran in move mode and wrote its manifest, and then
\* restoreFromManifest ran on that manifest
RoundTrip ==
  /\ organized # Null /\ restored # Null
  /\ ~organized.options.copy /\ ~organized.options.dryRun /\ organized.options.createManifest
  /\ organized.promise.state = "resolved"
  /\ ~restored.dryRun
  /\ restored.promise.state = "resolved"

\* C15: undo is a round trip: after organizeImages in move mode and then
\* restoreFromManifest, every file that was moved, the images and their
\* sidecars, is back at its original path.
C15_RestoreIsRoundTrip ==
  RoundTrip =>
    \A p \in DOMAIN diskBefore.files :
      p \in DOMAIN disk.files /\ disk.files[p] = diskBefore.files[p]

(***************************************************************************)
(* findDuplicates, then removeDuplicates                                   *)
(*                                                                         *)
(* A stored photo has its data, its size, its modification time and the    *)
(* parts of the EXIF signature that exiftool reads from it.  A hash or a   *)
(* signature is a sequence of strings; a missing one (null) is <<>>.       *)
(***************************************************************************)
\* calculateQuickHash / calculateFullHash: the md5 of the size and the data
calculateHash(d, filePath) ==
  IF ~access(d, filePath) THEN <<>>
  ELSE <<"md5">> \o String(d.files[filePath].size) \o <<d.files[filePath].data>>

\* createExifSignature: the parts that are present, when there are five or more
createExifSignature(exif) == IF Len(exif) < 5 THEN <<>> ELSE exif

\* phase 1 of findDuplicates from the k-th path on: fs.stat throws on a
\* missing file, which is skipped
RECURSIVE collectInfos(_, _, _, _)
collectInfos(d, files, k, method) ==
  IF k > Len(files) THEN <<>>
  ELSE IF ~access(d, files[k]) THEN collectInfos(d, files, k + 1, method)
  ELSE
    << [ path |-> files[k],
         filename |-> basename_path(files[k]),
         size |-> d.files[files[k]].size,
         mtime |-> d.files[files[k]].mtime,
         hash |-> IF method \in {"hash", "hybrid"} THEN calculateHash(d, files[k]) ELSE <<>>,
         exifSignature |-> IF method \in {"exif", "hybrid"}
                           THEN createExifSignature(d.files[files[k]].exif) ELSE <<>> ] >>
    \o collectInfos(d, files, k + 1, method)

\* the key a file is grouped under; <<>> when it has no signature
groupKey(info, method) ==
  With(IF method = "hash" THEN info.hash
       ELSE IF method = "exif" THEN info.exifSignature
       ELSE IF info.exifSignature # <<>> THEN info.exifSignature ELSE info.hash,
       LAMBDA signature :
    IF signature = <<>> THEN <<>>
    ELSE IF method = "hash" THEN String(info.size) \o <<":">> \o signature
    ELSE signature)

\* the keys in the order the Map first sees them
RECURSIVE keysInOrder(_, _, _)
keysInOrder(infos, k, method) ==
  IF k > Len(infos) THEN <<>>
  ELSE With(groupKey(infos[k], method), LAMBDA key :
         IF key = <<>> \/ \E j \in 1..(k - 1) : groupKey(infos[j], method) = key
         THEN keysInOrder(infos, k + 1, method)
         ELSE <<key>> \o keysInOrder(infos, k + 1, method))

\* the infos pushed under a key, in the order of the list
RECURSIVE groupOf(_, _, _, _)
groupOf(infos, k, key, method) ==
  IF k > Len(infos) THEN <<>>
  ELSE IF groupKey(infos[k], method) = key
  THEN <<infos[k]>> \o groupOf(infos, k + 1, key, method)
  ELSE groupOf(infos, k + 1, key, method)

\* group.sort((a, b) => a.mtime - b.mtime): stable, oldest first
RECURSIVE insertByMtime(_, _)
insertByMtime(info, sorted) ==
  IF sorted = <<>> THEN <<info>>
  ELSE IF info.mtime < Head(sorted).mtime THEN <<info>> \o sorted
  ELSE <<Head(sorted)>> \o insertByMtime(info, Tail(sorted))

RECURSIVE sortByMtime(_)
sortByMtime(group) ==
  IF group = <<>> THEN <<>>
  ELSE insertByMtime(group[Len(group)], sortByMtime(SubSeq(group, 1, Len(group) - 1)))

\* copies.reduce((sum, f) => sum + f.size, 0)
RECURSIVE sumSizes(_)
sumSizes(copies) == IF copies = <<>> THEN 0 ELSE Head(copies).size + sumSizes(Tail(copies))

\* phase 3 of findDuplicates from the k-th key on: the groups of two or more
RECURSIVE duplicateGroups(_, _, _, _)
duplicateGroups(infos, keys, k, method) ==
  IF k > Len(keys) THEN <<>>
  ELSE With(sortByMtime(groupOf(infos, 1, keys[k], method)), LAMBDA group :
         (IF Len(group) > 1
          THEN <<[ signature |-> keys[k],
                   original |-> group[1],
                   copies |-> Tail(group),
                   count |-> Len(group),
                   wastedSpace |-> sumSizes(Tail(group)) ]>>
          ELSE <<>>)
         \o duplicateGroups(infos, keys, k + 1, method))

\* duplicates.sort((a, b) => b.wastedSpace - a.wastedSpace): stable
RECURSIVE insertByWaste(_, _)
insertByWaste(group, sorted) ==
  IF sorted = <<>> THEN <<group>>
  ELSE IF Head(sorted).wastedSpace < group.wastedSpace THEN <<group>> \o sorted
  ELSE <<Head(sorted)>> \o insertByWaste(group, Tail(sorted))

RECURSIVE sortByWaste(_)
sortByWaste(groups) ==
  IF groups = <<>> THEN <<>>
  ELSE insertByWaste(groups[Len(groups)], sortByWaste(SubSeq(groups, 1, Len(groups) - 1)))

\* findDuplicates: the `duplicates` of the value it resolves with
findDuplicates(d, files, method) ==
  With(collectInfos(d, files, 1, method), LAMBDA infos :
    sortByWaste(duplicateGroups(infos, keysInOrder(infos, 1, method), 1, method)))

\* the copies of all groups, in the order removeDuplicates visits them
RECURSIVE allCopies(_)
allCopies(groups) ==
  IF groups = <<>> THEN <<>> ELSE Head(groups).copies \o allCopies(Tail(groups))

\* the loop of removeDuplicates from the k-th copy on: the file system
\* afterwards and the results
RECURSIVE removeLoop(_, _, _, _)
removeLoop(d, copies, k, dryRun) ==
  IF k > Len(copies) THEN [disk |-> d, removed |-> <<>>, failed |-> <<>>, freedSpace |-> 0]
  ELSE
    With(IF dryRun THEN Ok(d) ELSE unlink(d, copies[k].path), LAMBDA done :
    With(removeLoop(IF done.threw THEN d ELSE done.value, copies, k + 1, dryRun), LAMBDA rest :
      IF done.threw
      THEN [rest EXCEPT !.failed = <<[path |-> copies[k].path, error |-> "ENOENT"]>> \o @]
      ELSE [rest EXCEPT !.removed = <<copies[k].path>> \o @,
                        !.freedSpace = copies[k].size + @]))

removeDuplicates(d, groups, dryRun) == removeLoop(d, allCopies(groups), 1, dryRun)

\* the photos of the duplicate search: Photo1 and Shot2 hold the same data,
\* Shot3 is another picture taken with the same camera at the same moment
Shot2 == [dir |-> inputDir, base |-> <<<<"IMG_1 copy">>>>, ext |-> ".jpg"]

Shot3 == [dir |-> inputDir, base |-> <<<<"IMG_9">>>>, ext |-> ".jpg"]

SignatureParts == <<"Canon", "EOS R5", "0123", "2024-05-01T10:00:00", "8192", "5464">>

StoredPhoto(data, size, mtime, exif) == [data |-> data, size |-> size, mtime |-> mtime, exif |-> exif]

DuplicateDisks ==
  { [ dirs |-> {inputDir},
      files |-> (Photo1 :> StoredPhoto("pixels A", 40, t1, e1))
                @@ (Shot2 :> StoredPhoto("pixels A", 40, 2, e1))
                @@ (Shot3 :> StoredPhoto(data3, 40, 2, SignatureParts)) ]
    : t1 \in {1, 2, 3}, e1 \in {SignatureParts, <<"Canon">>}, data3 \in {"pixels A", "pixels B"} }

FileLists ==
  { <<>>, <<Photo1>>, <<Photo1, Shot2>>, <<Shot2, Photo1, Shot3>>, <<Photo1, Missing, Shot2>>,
    <<Photo1, Photo1>>, <<Shot2, Shot3, Shot2>> }

InitDuplicates ==
  /\ disk \in DuplicateDisks
  /\ diskBefore = Null /\ organized = Null /\ restored = Null
  /\ duplicates = Null /\ removed = Null /\ bursts = Null
  /\ IdleScore
  /\ IdleBatch
  /\ IdleEngines

FindDuplicates ==
  /\ duplicates = Null
  /\ \E files \in FileLists, method \in {"hash", "exif", "hybrid"} :
       duplicates' = [ files |-> files, method |-> method,
                       value |-> findDuplicates(disk, files, method) ]
  /\ UNCHANGED <<disk, diskBefore, organized, restored, removed, bursts>>
  /\ UNCHANGED <<scoreVars, batchVars, engineVars>>

RemoveDuplicates ==
  /\ duplicates # Null
  /\ removed = Null
  /\ \E dryRun \in BOOLEAN :
       With(removeDuplicates(disk, duplicates.value, dryRun), LAMBDA done :
         /\ disk' = done.disk
         /\ diskBefore' = disk
         /\ removed' = [ dryRun |-> dryRun,
                         value |-> [ removed |-> done.removed, failed |-> done.failed,
                                     freedSpace |-> done.freedSpace ] ])
  /\ UNCHANGED <<organized, restored, duplicates, bursts>>
  /\ UNCHANGED <<scoreVars, batchVars, engineVars>>

NextDuplicates == FindDuplicates \/ RemoveDuplicates

SpecDuplicates == InitDuplicates /\ [][NextDuplicates]_vars

\* C16: deleting duplicates keeps the oldest: the original of every group has
\* the smallest mtime of the group and is in no list of copies, and it still
\* exists after removeDuplicates with dryRun: false, for every input list,
\* repeated paths included; with dryRun: true nothing is deleted.
C16_OriginalsSurvive ==
  /\ duplicates # Null =>
       \A g \in 1..Len(duplicates.value) :
         /\ \A c \in 1..Len(duplicates.value[g].copies) :
              duplicates.value[g].original.mtime <= duplicates.value[g].copies[c].mtime
         /\ \A h \in 1..Len(duplicates.value) :
              \A c \in 1..Len(duplicates.value[h].copies) :
                duplicates.value[h].copies[c].path # duplicates.value[g].original.path
  /\ (removed # Null /\ ~removed.dryRun) =>
       \A g \in 1..Len(duplicates.value) : access(disk, duplicates.value[g].original.path)
  /\ (removed # Null /\ removed.dryRun) => disk = diskBefore

\* the analyzeImage call of task k has settled with a scored result
Scored(k) ==
  /\ task[k].pc \in {"settled", "done"}
  /\ task[k].promise.state = "resolved"
  /\ "scoring" \in DOMAIN task[k].promise.value

\* the results that the engines of task k resolve with
EngineResult(k, engine) == world[task[k].filePath][engine].value

\* C17: within analyzeImage, calculateScores runs only after analyzeHistogram,
\* analyzeSharpness and (unless skipped) analyzeComposition have completed, the
\* first two being in flight together: what is scored is the complete result of
\* each engine, and scoring happens in the step that resumes analyzeImage after
\* its last await, with no suspension in between.
C17_ScoresAfterEngines ==
  /\ [](\A k \in 1..Len(task) :
          Scored(k) =>
            /\ task[k].promise.value.analysis.histogram = EngineResult(k, "histogram")
            /\ task[k].promise.value.analysis.sharpness = EngineResult(k, "sharpness")
            /\ task[k].promise.value.analysis.composition =
                 IF analysisOptions.skipComposition THEN Null
                 ELSE EngineResult(k, "composition"))
  /\ [][\A k \in 1..Len(task) :
          /\ (task[k].pc = "preview" /\ task'[k].pc = "engines")
               => task'[k].histogram = Null /\ task'[k].sharpness = Null
          /\ (Scored(k)' /\ ~Scored(k))
               => \/ task[k].pc = "composition"
                  \/ /\ task[k].pc = "engines" /\ analysisOptions.skipComposition
                     /\ (task[k].histogram # Null \/ task[k].sharpness # Null)]_vars

\* one image has been scored with its composition while, for another image of
\* the same batch, analyzeHistogram has completed and analyzeSharpness has not
C17_Witness ==
  \E j \in 1..Len(task), k \in 1..Len(task) :
    /\ Scored(k) /\ ~analysisOptions.skipComposition
    /\ task[k].promise.value.analysis.composition # Null
    /\ task[j].pc = "engines" /\ task[j].histogram # Null /\ task[j].sharpness = Null

\* the mean brightness of a luminance histogram, not rounded: the levels
\* weighted by their share, over the sum of the shares
RECURSIVE SumLevels(_, _, _)
SumLevels(S, f, acc) ==
  IF S = {} THEN acc
  ELSE With(CHOOSE k \in S : TRUE, LAMBDA k : SumLevels(S \ {k}, f, FAdd(acc, f[k])))

MeanBrightness(luminance) ==
  With({k \in Levels : luminance[k].n # 0}, LAMBDA used :
    FDiv(SumLevels(used, [k \in used |-> FMul(I(k), luminance[k])], I(0)),
         SumLevels(used, [k \in used |-> luminance[k]], I(0))))

\* the exposure analysis of call k and the mean brightness of its histogram
ExposureOf(k) == analyses[k].histogram.exposure

MeanOf(k) == MeanBrightness(analyses[k].histogram.histogram.luminance)

DeviationInRange(k) ==
  With(ExposureOf(k), LAMBDA exposure :
    /\ FGe(exposure.deviation, I(0))
    /\ FLe(exposure.deviation, I(1))
    /\ FEq(exposure.deviation, I(0)) <=> exposure.assessment = "well-exposed")

\* C18 as stated: a mean brightness m is labelled underexposed when m < 80,
\* slightly-under when 80 <= m < 100, well-exposed when 100 <= m <= 160,
\* slightly-over when 160 < m < 180 and overexposed when m >= 180; the deviation
\* is always in [0,1] and is 0 exactly for well-exposed.
C18_ExposureBands ==
  \A k \in Returned :
    /\ With(MeanOf(k), LAMBDA m :
         ExposureOf(k).assessment =
           IF FLt(m, I(80)) THEN "underexposed"
           ELSE IF FLt(m, I(100)) THEN "slightly-under"
           ELSE IF FLe(m, I(160)) THEN "well-exposed"
           ELSE IF FLt(m, I(180)) THEN "slightly-over"
           ELSE "overexposed")
    /\ DeviationInRange(k)

\* C18 (amended): the same bands, with a mean of exactly 180 still
\* slightly-over: slightly-over when 160 < m <= 180, overexposed when m > 180.
C18_ExposureBandsStrict ==
  \A k \in Returned :
    /\ With(MeanOf(k), LAMBDA m :
         ExposureOf(k).assessment =
           IF FLt(m, I(80)) THEN "underexposed"
           ELSE IF FLt(m, I(100)) THEN "slightly-under"
           ELSE IF FLe(m, I(160)) THEN "well-exposed"
           ELSE IF FLe(m, I(180)) THEN "slightly-over"
           ELSE "overexposed")
    /\ DeviationInRange(k)

\* a histogram with a mean brightness of exactly 180 was analysed: it is
\* slightly-over with a deviation of a third
C18_Witness ==
  \E k \in Returned :
    /\ FEq(MeanOf(k), I(180))
    /\ ExposureOf(k).assessment = "slightly-over"
    /\ FEq(ExposureOf(k).deviation, Frac(1, 3))

\* C19: when the engine result is supplied, the sub-scores sharpness, exposure
\* and composition equal that engine's score and dynamicRange equals the
\* engine's range percentage, for every value from 0 to 100, 0 included (the
\* neutral result of a failed analysis); composition is 60 only when the
\* composition analysis was skipped.
C19_SubScoresAreEngineScores ==
  \A k \in Returned :
    /\ analyses[k].sharpness # Null =>
         FEq(scoring[k].scores.sharpness, analyses[k].sharpness.overall.score)
    /\ analyses[k].histogram # Null =>
         /\ FEq(scoring[k].scores.exposure, analyses[k].histogram.score)
         /\ FEq(scoring[k].scores.dynamicRange, analyses[k].histogram.dynamicRange.percentage)
    /\ IF analyses[k].composition # Null
       THEN FEq(scoring[k].scores.composition, analyses[k].composition.score.score)
       ELSE FEq(scoring[k].scores.composition, I(60))

(***************************************************************************)
(* calculateNoiseScore over the ISO scale: two calls of calculateScores on *)
(* photos that differ in ISO and in the share of their shadow zone         *)
(***************************************************************************)
IsoInputs ==
  {50, 200, 201, 400, 401, 800, 801, 1600, 1601, 3200, 3201, 6400, 6401, 12800, 12801, 51200}

ShadowInputs == {0, 30, 31, 100}

NoiseInputs ==
  { [exif |-> Ex(iso, FALSE), histogram |-> h, sharpness |-> Null, composition |-> Null] :
      iso \in IsoInputs,
      h \in {Null, createEmptyAnalysis_histogram}
              \cup {Hi(60, "well-exposed", z, 0, 0, 64) : z \in ShadowInputs} }
    \cup { [exif |-> e, histogram |-> Hi(60, "well-exposed", 100, 0, 0, 64), sharpness |-> Null,
            composition |-> Null] : e \in {Null, Ex(0, FALSE)} }

InitNoise ==
  /\ \E a1 \in NoiseInputs, a2 \in NoiseInputs : analyses = <<a1, a2>>
  /\ options = <<Opt("general"), Opt("general")>>
  /\ scoring = <<>>
  /\ IdleBatch
  /\ IdleEngines
  /\ IdleOrganizer

SpecNoise == InitNoise /\ [][NextScore]_vars

\* the ISO of call k (0 when it is not known) and the share of its shadow zone
IsoOf(k) == IF analyses[k].exif = Null THEN 0 ELSE analyses[k].exif.exposure.iso

ShadowsPushed(k) ==
  /\ analyses[k].histogram # Null
  /\ "zones" \in DOMAIN analyses[k].histogram.exposure
  /\ FGt(analyses[k].histogram.exposure.zones.shadows, I(30))
  /\ IsoOf(k) > 1600

\* the noise score is non-increasing in the ISO (for the same histogram), 10
\* lower than its band exactly when the shadows are pushed, and within [0,100]
NoiseShape(Band(_)) ==
  /\ \A k \in Returned :
       IsoOf(k) # 0 =>
         /\ FEq(scoring[k].scores.noise,
                I(IF ShadowsPushed(k) THEN Band(IsoOf(k)) - 10 ELSE Band(IsoOf(k))))
         /\ FGe(scoring[k].scores.noise, I(0))
         /\ FLe(scoring[k].scores.noise, I(100))
  /\ \A j \in Returned, k \in Returned :
       (IsoOf(j) # 0 /\ IsoOf(j) <= IsoOf(k) /\ analyses[j].histogram = analyses[k].histogram)
         => FGe(scoring[j].scores.noise, scoring[k].scores.noise)

\* the bands of calculateNoiseScore
BandOf(iso) ==
  IF iso <= 200 THEN 100 ELSE IF iso <= 400 THEN 95 ELSE IF iso <= 800 THEN 85
  ELSE IF iso <= 1600 THEN 75 ELSE IF iso <= 3200 THEN 60 ELSE IF iso <= 6400 THEN 45
  ELSE IF iso <= 12800 THEN 30 ELSE 15

\* the values the noise score takes over the ISO scale when no shadows are pushed
BandValues == {calculateNoiseScore(Ex(iso, FALSE), Null) : iso \in IsoInputs}

\* C20 as stated: the noise sub-score is a non-increasing step function of the
\* ISO with 7 bands, from 100 for ISO <= 200 down to 15 for ISO > 12800; it is
\* lowered by a further 10 exactly when ISO > 1600 and the shadow zone is above
\* 30 percent; it is always in [0,100].
C20_NoiseSevenBands ==
  /\ NoiseShape(BandOf)
  /\ Cardinality(BandValues) = 7

\* C20 (amended): the same with 8 bands: 100 up to ISO 200, 95 up to 400, 85 up
\* to 800, 75 up to 1600, 60 up to 3200, 45 up to 6400, 30 up to 12800 and 15
\* above; an unknown ISO scores 80.
C20_NoiseEightBands ==
  /\ NoiseShape(BandOf)
  /\ Cardinality(BandValues) = 8
  /\ \A k \in Returned : IsoOf(k) = 0 => FEq(scoring[k].scores.noise, I(80))

\* both calls have returned: one at ISO 400 scored 95, the band between 100
\* and 85, the other above ISO 12800 with pushed shadows scored 5
C20_Witness ==
  /\ Len(scoring) = 2
  /\ IsoOf(1) = 400 /\ FEq(scoring[1].scores.noise, I(95))
  /\ IsoOf(2) = 12801 /\ ShadowsPushed(2) /\ FEq(scoring[2].scores.noise, I(5))
(***************************************************************************)
(* calculateKeeperProbability: calls of calculateScores whose weights are  *)
(* whole numbers, so that the weighted sums and the overall score are the  *)
(* doubles the build computes, on results with issues of every severity    *)
(***************************************************************************)
KeeperWeights ==
  { [sharpness |-> I(1)],
    [sharpness |-> I(1), exposure |-> I(1)],
    [sharpness |-> I(3), exposure |-> I(1)] }

KeeperInputs ==
  { [exif |-> Ex(iso, FALSE),
     histogram |-> Hi(e, a, 10, hl, 0, 64),
     sharpness |-> Sh(s, t, I(0), <<"center">>),
     composition |-> c] :
      iso \in {100, 12801},
      e \in {0, 58, 100},
      a \in {"well-exposed", "underexposed"},
      hl \in {0, 700, 2000},
      s \in {0, 10, 57, 59, 100},
      t \in {"none", "motion"},
      c \in {Null, Co(60, TRUE, 30), Co(60, TRUE, 60)} }

InitKeeper ==
  /\ \E a1 \in KeeperInputs : analyses = <<a1>>
  /\ \E w \in KeeperWeights : options = <<[mode |-> "general", customWeights |-> w]>>
  /\ scoring = <<>>
  /\ IdleBatch
  /\ IdleEngines
  /\ IdleOrganizer

SpecKeeper == InitKeeper /\ [][NextScore]_vars

\* the unrounded overall score of call k (overallScore, part_002:52)
OverallScoreOf(k) == OverallScore(SubScores(analyses[k]), ActualWeights(options[k]))

\* the issues of a list that are not of low severity
NotLow(issues) == SelectSeq(issues, LAMBDA issue : issue.severity # "low")

\* overall/100 less 0.15 per high and 0.05 per medium issue, clamped to [0,1]
\* and rounded to 2 decimals
StatedKeeperProbability(overall, issues) ==
  FRoundTo(FMax(I(0), FMin(I(1),
      FSub(FDiv(overall, I(100)),
           Frac(15 * CountSeverity(issues, "high") + 5 * CountSeverity(issues, "medium"), 100)))),
    100)

\* the keeper probability lies in [0,1] and low-severity issues do not change it
KeeperInRange ==
  \A k \in Returned :
    /\ FGe(scoring[k].keeperProbability, I(0))
    /\ FLe(scoring[k].keeperProbability, I(1))
    /\ scoring[k].keeperProbability
         = calculateKeeperProbability(OverallScoreOf(k), NotLow(scoring[k].issues))

\* C21: keeperProbability equals the returned `overall` divided by 100, minus
\* 0.15 per high-severity issue and 0.05 per medium-severity issue, clamped to
\* [0,1] and rounded to 2 decimals; it is in [0,1] for every input, and
\* low-severity issues do not change it.
C21_KeeperFromOverall ==
  /\ KeeperInRange
  /\ \A k \in Returned :
       FEq(scoring[k].keeperProbability,
           StatedKeeperProbability(scoring[k].overall, scoring[k].issues))
(***************************************************************************)
(* The clipping issue of generateIssuesList                                *)
(***************************************************************************)
\* the severity of a tail ("highlights" or "shadows") in the histogram result
\* of call k; "" when the result has none
TailSeverity(k, tail) ==
  IF analyses[k].histogram = Null THEN ""
  ELSE IF "severity" \notin DOMAIN analyses[k].histogram.clipping[tail] THEN ""
  ELSE analyses[k].histogram.clipping[tail].severity

ClippingIssues(k) == SelectSeq(scoring[k].issues, LAMBDA issue : issue.type = "clipping")

\* issue is the clipping issue of the tail: high for severe and medium for
\* moderate, recoverable below 10 percent
IssueOfTail(k, tail, issue) ==
  /\ issue.type = "clipping"
  /\ issue.severity = (IF TailSeverity(k, tail) = "severe" THEN "high" ELSE "medium")
  /\ issue.suggestion = (IF FLt(analyses[k].histogram.clipping[tail].clipped, I(10))
                         THEN "May be recoverable" ELSE "Likely unrecoverable")

\* the clipping issues of call k are those of the tails of Tails
ClippingIssuesOf(k, Tails) ==
  LET flagged == {tail \in Tails : TailSeverity(k, tail) \in {"moderate", "severe"}}
  IN /\ \A tail \in flagged :
          \E n \in 1..Len(ClippingIssues(k)) : IssueOfTail(k, tail, ClippingIssues(k)[n])
     /\ \A n \in 1..Len(ClippingIssues(k)) :
          \E tail \in flagged : IssueOfTail(k, tail, ClippingIssues(k)[n])

\* C22: generateIssuesList appends a clipping issue whenever the clipping
\* severity of a tail (highlights or shadows) is moderate or severe: issue
\* severity 'high' for severe and 'medium' for moderate, with the suggestion
\* 'May be recoverable' when the clipped percentage is below 10 and 'Likely
\* unrecoverable' otherwise; no clipping issue is appended for severity none
\* or minor.
C22_ClippingIssuePerTail ==
  \A k \in Returned : ClippingIssuesOf(k, {"highlights", "shadows"})
(***************************************************************************)
(* The thirds bonus of calculateCompositionScore over the whole range of   *)
(* the alignment: the result analyzeComposition builds from an alignment,  *)
(* a balance, a horizon and a symmetry                                     *)
(***************************************************************************)
\* the alignment, a fraction of 1, in steps of half a percent
AlignmentInputs == {Frac(a, 200) : a \in 0..200}

BalanceInputs == {[type |-> t] : t \in {"symmetrical", "dynamic", "unbalanced"}}

HorizonInputs ==
  { [detected |-> FALSE],
    [detected |-> TRUE, level |-> FALSE, tilt |-> I(5), positionQuality |-> "upper-third"] }

SymmetryInputs == {[type |-> t] : t \in {"horizontally-symmetric", "asymmetric"}}

\* the fields of the result of analyzeComposition that the score depends on
compositionResult(alignment, balance, horizon, symmetry) ==
  With([alignment |-> alignmentPercent(alignment), assessment |-> thirdsAssessment(alignment)],
       LAMBDA ruleOfThirds :
    [ ruleOfThirds |-> ruleOfThirds,
      balance |-> balance,
      horizon |-> horizon,
      symmetry |-> symmetry,
      score |-> calculateCompositionScore(ruleOfThirds, balance, horizon, symmetry) ])

InitThirds == IdleScore /\ IdleBatch /\ IdleEngines /\ IdleOrganizer

ScoreComposition ==
  /\ composition = Null
  /\ \E alignment \in AlignmentInputs, balance \in BalanceInputs, horizon \in HorizonInputs,
        symmetry \in SymmetryInputs :
       composition' = Resolved(compositionResult(alignment, balance, horizon, symmetry))
  /\ UNCHANGED <<imageBuffer, sharpness, histogram>>
  /\ UNCHANGED <<scoreVars, batchVars, organizerVars>>

NextThirds == ScoreComposition

SpecThirds == InitThirds /\ [][NextThirds]_vars

\* the thirds bonus recorded in the factors of a composition result
ThirdsFactor(comp) ==
  IF \E k \in 1..Len(comp.score.factors) : comp.score.factors[k] = "strong-thirds: +15" THEN 15
  ELSE IF \E k \in 1..Len(comp.score.factors) : comp.score.factors[k] = "moderate-thirds: +8"
  THEN 8 ELSE 0

\* what the score gains over the same composition with no alignment at all
ThirdsGain(comp) ==
  FSub(comp.score.score,
       calculateCompositionScore([alignment |-> I(0), assessment |-> "weak"], comp.balance,
                                 comp.horizon, comp.symmetry).score)

\* C23: the composition score adds +15 exactly when the rule-of-thirds
\* alignment is assessed 'strong' and +8 exactly when it is assessed 'moderate'
\* (nothing when 'weak'), so for every alignment value 0..100 the thirds bonus
\* recorded in `factors` agrees with ruleOfThirds.assessment.
C23_ThirdsBonusMatchesAssessment ==
  composition # Null =>
    LET comp == composition.value
        bonus == IF comp.ruleOfThirds.assessment = "strong" THEN 15
                 ELSE IF comp.ruleOfThirds.assessment = "moderate" THEN 8 ELSE 0
    IN ThirdsFactor(comp) = bonus /\ FEq(ThirdsGain(comp), I(bonus))
(***************************************************************************)
(* detectBlurType and calculateSharpnessScore over what analyzeSharpness   *)
(* can measure: here the buffer is given by its measurements (Laplacian    *)
(* variance, directional gradients, consistency of the gradient            *)
(* directions, edges and focus plane)                                      *)
(***************************************************************************)
BlurVariances == {0, 10, 20, 39, 40, 45, 49, 50, 79, 80, 100, 101, 600}

BlurGradients ==
  { <<0, 0>>, <<5, 5>>, <<10, 0>>, <<20, 4>>, <<12, 12>>, <<20, 8>>, <<20, 20>>, <<21, 20>>,
    <<30, 30>> }

EdgeStrengths == {0, 10, 15, 16, 25, 26, 40, 41, 60, 61, 80, 81, 120, 200}

Measurements ==
  { [ overallSharpness |-> I(variance),
      horizontalGradient |-> I(gradient[1]),
      verticalGradient |-> I(gradient[2]),
      gradientConsistency |-> consistency,
      edges |-> [averageStrength |-> I(strength), strongEdgeRatio |-> I(ratio)],
      focusPlane |-> [position |-> position] ] :
      variance \in BlurVariances, gradient \in BlurGradients,
      consistency \in {Frac(1, 2), I(1)},
      strength \in EdgeStrengths, ratio \in {0, 6},
      position \in {"center", "top-left"} }

InitBlur ==
  /\ imageBuffer \in Measurements
  /\ sharpness = Null /\ histogram = Null /\ composition = Null
  /\ IdleScore
  /\ IdleBatch
  /\ IdleOrganizer

\* analyzeSharpness from the measurements on (sharpnessAnalyzer.js:44-66)
ScoreSharpness ==
  /\ sharpness = Null
  /\ sharpness' =
       Resolved(sharpnessResult(imageBuffer.overallSharpness,
                                blurResult(imageBuffer.overallSharpness,
                                           imageBuffer.horizontalGradient,
                                           imageBuffer.verticalGradient,
                                           imageBuffer.gradientConsistency),
                                imageBuffer.edges, imageBuffer.focusPlane))
  /\ UNCHANGED <<imageBuffer, histogram, composition>>
  /\ UNCHANGED <<scoreVars, batchVars, organizerVars>>

NextBlur == ScoreSharpness

SpecBlur == InitBlur /\ [][NextBlur]_vars

\* the average gradient and the directional bias of the measured buffer
AvgGradient == FDiv(FAdd(imageBuffer.horizontalGradient, imageBuffer.verticalGradient), I(2))

Directional ==
  FGt(FAbs(FSub(FDiv(imageBuffer.horizontalGradient,
                     OrElse(imageBuffer.verticalGradient, I(1))), I(1))), Frac(1, 2))

\* the guards of the four types, in their order of precedence
IsNone == FGt(imageBuffer.overallSharpness, I(100)) \/ FGt(AvgGradient, I(20))

IsMotion ==
  ~IsNone /\ Directional /\ FLt(imageBuffer.overallSharpness, I(50)) /\ FLt(AvgGradient, I(15))

IsDefocus ==
  /\ ~IsNone /\ ~IsMotion
  /\ FLt(imageBuffer.overallSharpness, I(40))
  /\ FGt(imageBuffer.gradientConsistency, Frac(9, 10))
  /\ FLt(AvgGradient, I(12))

IsSoft == ~IsNone /\ ~IsMotion /\ ~IsDefocus /\ FLt(imageBuffer.overallSharpness, I(80))

\* C24: detectBlurType returns exactly one of none / motion / defocus / soft,
\* chosen with precedence none > motion > defocus > soft: it is 'none' whenever
\* the Laplacian variance is > 100 or the average gradient is > 20; the
\* severity is always in [0,1], is 0 for none and 0.2 for soft, and for motion
\* and defocus grows linearly as the variance falls below 50 and 40
\* respectively; direction is non-null only for motion.
C24_BlurTypeByPrecedence ==
  sharpness # Null =>
    LET blur == sharpness.value.blur
        variance == imageBuffer.overallSharpness
    IN /\ blur.type = (IF IsNone THEN "none" ELSE IF IsMotion THEN "motion"
                       ELSE IF IsDefocus THEN "defocus" ELSE IF IsSoft THEN "soft" ELSE "none")
       /\ FGe(blur.severity, I(0)) /\ FLe(blur.severity, I(1))
       /\ blur.type = "none" => FEq(blur.severity, I(0))
       /\ blur.type = "soft" => FEq(blur.severity, Frac(2, 10))
       /\ blur.type = "motion" => FEq(blur.severity, FSub(I(1), FDiv(variance, I(50))))
       /\ blur.type = "defocus" => FEq(blur.severity, FSub(I(1), FDiv(variance, I(40))))
       /\ blur.type # "motion" => blur.direction = Null

\* a buffer that is both directional and consistent: motion wins over defocus,
\* with severity 1 - 10/50 and a direction
C24_Witness ==
  /\ sharpness # Null
  /\ FEq(imageBuffer.overallSharpness, I(10))
  /\ Directional
  /\ FEq(imageBuffer.gradientConsistency, I(1))
  /\ FLt(AvgGradient, I(12))
  /\ sharpness.value.blur.type = "motion"
  /\ FEq(sharpness.value.blur.severity, Frac(8, 10))
  /\ sharpness.value.blur.direction = "horizontal"

\* the score of the measured buffer with another blur or another edge strength
ScoreWith(blur, strength) ==
  calculateSharpnessScore_sharpness(imageBuffer.overallSharpness, blur,
      [averageStrength |-> I(strength), strongEdgeRatio |-> imageBuffer.edges.strongEdgeRatio],
      imageBuffer.focusPlane)

\* C25: every successful sharpness analysis has a final score of at least 20:
\* the edge-based base is at least 30, the base is non-decreasing in average
\* edge strength, and the only penalty (motion or defocus with severity > 0.6;
\* never for soft) removes at most 10, so the assessment 'unusable' (score <
\* 20) is never produced by a non-neutral result.
C25_ScoreAtLeast20 ==
  sharpness # Null =>
    LET result == sharpness.value
        unblurred == [type |-> "none", severity |-> I(0), direction |-> Null]
        penalised == /\ result.blur.type \in {"motion", "defocus"}
                     /\ FGt(result.blur.severity, Frac(6, 10))
    IN /\ FGe(result.overall.score, I(20))
       /\ result.overall.assessment # "unusable"
       /\ \A strength \in EdgeStrengths :
            /\ FGe(ScoreWith(unblurred, strength), I(30))
            /\ FLe(I(strength), imageBuffer.edges.averageStrength)
                 => FLe(ScoreWith(result.blur, strength), result.overall.score)
       /\ FGe(result.overall.score, FSub(ScoreWith(unblurred, imageBuffer.edges.averageStrength.n), I(10)))
       /\ ~penalised => result.overall.score = ScoreWith(unblurred, imageBuffer.edges.averageStrength.n)

\* no edges and motion blur of severity 1: the base of 30 less the penalty of 10
C25_Witness ==
  /\ sharpness # Null
  /\ FEq(imageBuffer.edges.averageStrength, I(0))
  /\ imageBuffer.focusPlane.position # "center"
  /\ sharpness.value.blur.type = "motion"
  /\ FEq(sharpness.value.blur.severity, I(1))
  /\ FEq(sharpness.value.overall.score, I(20))
  /\ sharpness.value.overall.assessment = "very-soft"
(***************************************************************************)
(* analyzeExposure over the scale of the mean brightness: analyzeHistogram *)
(* from the histogram on, for a buffer given by its two tones              *)
(***************************************************************************)
\* uniform buffers over the whole scale and two-tone buffers whose mean lies
\* half a level from the edges of the exposure bands
ExposureTones ==
  {<<m, m>> : m \in {0, 5, 10, 15, 20, 25, 30, 35, 45, 55, 65, 120, 140, 40, 50, 60, 70, 75, 78, 79, 80, 81, 82, 85, 90, 95, 98, 99,
                     100, 101, 110, 130, 150, 159, 160, 161, 162, 165, 170, 175, 178, 179, 180,
                     181, 182, 185, 190, 200, 210, 220, 230, 240, 250, 254, 255}}
    \cup {<<m, m + 1>> : m \in {78, 79, 80, 99, 100, 159, 160, 179, 180, 181}}

InitExposure ==
  /\ imageBuffer \in {[lo |-> tones[1], hi |-> tones[2]] : tones \in ExposureTones}
  /\ sharpness = Null /\ histogram = Null /\ composition = Null
  /\ IdleScore
  /\ IdleBatch
  /\ IdleOrganizer

\* analyzeHistogram from the histogram on (histogramAnalyzer.js:24-55)
ScoreExposure ==
  /\ histogram = Null
  /\ histogram' =
       Resolved(histogramResult([luminance |-> luminanceOfTones(imageBuffer.lo, imageBuffer.hi)]))
  /\ UNCHANGED <<imageBuffer, sharpness, composition>>
  /\ UNCHANGED <<scoreVars, batchVars, organizerVars>>

NextExposure == ScoreExposure

SpecExposure == InitExposure /\ [][NextExposure]_vars

\* the mean brightness of a two-tone buffer and the deviation analyzeExposure
\* reports for it
MeanOfTones(lo, hi) == Frac(lo + hi, 2)

DeviationOfTones(lo, hi) == analyzeExposure([luminance |-> luminanceOfTones(lo, hi)], Null).deviation

\* the deviation of the analysed buffer against that of every buffer of Others
DeviationMonotoneAgainst(Others) ==
  histogram # Null =>
    LET m1 == MeanOfTones(imageBuffer.lo, imageBuffer.hi)
        d1 == histogram.value.exposure.deviation
    IN \A other \in Others :
         LET m2 == MeanOfTones(other[1], other[2])
             d2 == DeviationOfTones(other[1], other[2])
         IN /\ (FLt(m1, m2) /\ FLe(m2, I(100))) => FGe(d1, d2)
            /\ (FLe(I(160), m1) /\ FLt(m1, m2)) => FLe(d1, d2)

\* C26: the exposure deviation never decreases as the mean brightness moves
\* away from the well-exposed band: for m1 < m2 <= 100, deviation(m1) >=
\* deviation(m2), and for 160 <= m1 < m2, deviation(m1) <= deviation(m2); hence
\* the exposure-score penalty deviation*20 is monotone in the distance from the
\* band.
C26_DeviationMonotone == DeviationMonotoneAgainst(ExposureTones)
(***************************************************************************)
(* Auto-rejection for blown highlights and the issue list                  *)
(***************************************************************************)
BlownHighlights(k) ==
  /\ scoring[k].classification.autoReject # Null
  /\ \E n \in 1..Len(scoring[k].classification.autoReject.reasons) :
       scoring[k].classification.autoReject.reasons[n] = "blown-highlights"

\* C27: whenever classification.autoReject contains 'blown-highlights'
\* (highlight-clipped % >= 25), the issue list of the same result contains a
\* clipping issue of severity 'high': an image is never auto-rejected for
\* blown highlights without the issue being reported.
C27_BlownHighlightsReported ==
  \A k \in Returned :
    BlownHighlights(k) =>
      \E n \in 1..Len(scoring[k].issues) :
        scoring[k].issues[n].type = "clipping" /\ scoring[k].issues[n].severity = "high"
(***************************************************************************)
(* detectBurstGroups (part_000:194-244)                                    *)
(***************************************************************************)
\* new Date(taken).getTime(): a capture time <<minute, second, millisecond>> in
\* milliseconds
getTime(taken) == (taken[1] * 60 + taken[2]) * 1000 + taken[3]

timeOf(img) == getTime(img.exif.timestamp.taken)

\* img.success && img.exif?.timestamp?.taken
hasTimestamp(img) == img.success /\ img.exif # Null

\* sort((a, b) => timeA - timeB): stable, earliest first
RECURSIVE insertByTime(_, _)
insertByTime(img, sorted) ==
  IF sorted = <<>> THEN <<img>>
  ELSE IF timeOf(img) < timeOf(Head(sorted)) THEN <<img>> \o sorted
  ELSE <<Head(sorted)>> \o insertByTime(img, Tail(sorted))

RECURSIVE sortByTime(_)
sortByTime(images) ==
  IF images = <<>> THEN <<>>
  ELSE insertByTime(images[Len(images)], sortByTime(SubSeq(images, 1, Len(images) - 1)))

\* the loop of part_000:207-231 from sorted[k] on
RECURSIVE burstLoop(_, _, _, _, _)
burstLoop(sorted, k, groups, currentGroup, maxIntervalMs) ==
  IF k > Len(sorted) THEN [groups |-> groups, currentGroup |-> currentGroup]
  ELSE With(sorted[k], LAMBDA current :
       With(timeOf(current), LAMBDA currentTime :
         IF Len(currentGroup) = 0
         THEN burstLoop(sorted, k + 1, groups, <<current>>, maxIntervalMs)
         ELSE IF currentTime - timeOf(currentGroup[Len(currentGroup)]) <= maxIntervalMs
         THEN burstLoop(sorted, k + 1, groups, Append(currentGroup, current), maxIntervalMs)
         ELSE burstLoop(sorted, k + 1,
                        IF Len(currentGroup) >= 2
                        THEN Append(groups, [ images |-> currentGroup,
                                              size |-> Len(currentGroup),
                                              timeSpan |-> currentTime - timeOf(currentGroup[1]) ])
                        ELSE groups,
                        <<current>>, maxIntervalMs)))

detectBurstGroups(analyzedImages, maxIntervalMs) ==
  With(burstLoop(sortByTime(SelectSeq(analyzedImages, hasTimestamp)), 1, <<>>, <<>>,
                 maxIntervalMs), LAMBDA end :
    IF Len(end.currentGroup) >= 2
    THEN Append(end.groups,
                [ images |-> end.currentGroup,
                  size |-> Len(end.currentGroup),
                  timeSpan |-> timeOf(end.currentGroup[Len(end.currentGroup)])
                               - timeOf(end.currentGroup[1]) ])
    ELSE end.groups)

\* the longest list of analysed images handed to detectBurstGroups
MaxShots == 4

Shot(file, taken, success) ==
  [file |-> file, success |-> success, exif |-> [timestamp |-> [taken |-> taken]]]

\* five shots at 1.0 s, 1.4 s, 2.4 s, 4.0 s and 4.0 s, a failed analysis that
\* has a capture time, and a shot without EXIF data
Shots ==
  { Shot("a", <<0, 1, 0>>, TRUE), Shot("b", <<0, 1, 400>>, TRUE), Shot("c", <<0, 2, 400>>, TRUE),
    Shot("d", <<0, 4, 0>>, TRUE), Shot("e", <<0, 4, 0>>, TRUE), Shot("f", <<0, 1, 200>>, FALSE),
    [file |-> "g", success |-> TRUE, exif |-> Null] }

ShotLists ==
  { list \in UNION {[1..n -> Shots] : n \in 0..MaxShots} :
      \A j \in 1..Len(list), k \in 1..Len(list) : list[j] = list[k] => j = k }

InitBurst == IdleScore /\ IdleBatch /\ IdleEngines /\ IdleOrganizer

DetectBurstGroups ==
  /\ bursts = Null
  /\ \E analyzedImages \in ShotLists, maxIntervalMs \in {500, 1000} :
       bursts' = [ analyzedImages |-> analyzedImages, maxIntervalMs |-> maxIntervalMs,
                   value |-> detectBurstGroups(analyzedImages, maxIntervalMs) ]
  /\ UNCHANGED <<disk, diskBefore, organized, restored, duplicates, removed>>
  /\ UNCHANGED <<scoreVars, batchVars, engineVars>>

NextBurst == DetectBurstGroups

SpecBurst == InitBurst /\ [][NextBurst]_vars

\* the images of the call that are successful and have a capture time
Timed ==
  {bursts.analyzedImages[k] : k \in {j \in 1..Len(bursts.analyzedImages) :
                                       hasTimestamp(bursts.analyzedImages[j])}}

InGroup(group, img) == \E k \in 1..Len(group.images) : group.images[k] = img

\* a group is a run of successful images, each at most maxIntervalMs after the
\* one before, that no other timed image of the call could extend
IsBurst(group) ==
  /\ Len(group.images) >= 2
  /\ group.size = Len(group.images)
  /\ \A k \in 1..Len(group.images) : group.images[k] \in Timed
  /\ \A k \in 1..(Len(group.images) - 1) :
       /\ timeOf(group.images[k]) <= timeOf(group.images[k + 1])
       /\ timeOf(group.images[k + 1]) - timeOf(group.images[k]) <= bursts.maxIntervalMs
  /\ \A img \in Timed :
       ~InGroup(group, img) =>
         \A k \in 1..Len(group.images) :
           Abs(timeOf(img) - timeOf(group.images[k])) > bursts.maxIntervalMs

GroupsDisjoint ==
  \A m \in 1..Len(bursts.value), n \in 1..Len(bursts.value) :
    m # n => \A img \in Timed : ~(InGroup(bursts.value[m], img) /\ InGroup(bursts.value[n], img))

\* two timed images at most maxIntervalMs apart are in a group together
GroupsComplete ==
  \A img \in Timed, other \in Timed :
    (img # other /\ Abs(timeOf(img) - timeOf(other)) <= bursts.maxIntervalMs)
      => \E n \in 1..Len(bursts.value) :
           InGroup(bursts.value[n], img) /\ InGroup(bursts.value[n], other)

SpanOf(group) == timeOf(group.images[Len(group.images)]) - timeOf(group.images[1])

\* C28: every group returned by detectBurstGroups consists of successful
\* images that are consecutive in capture time with each gap <= maxIntervalMs,
\* the groups are pairwise disjoint and maximal, and each group's timeSpan
\* equals the capture time of its last image minus that of its first image,
\* for the last group and for every earlier group alike.
C28_BurstGroups ==
  bursts # Null =>
    /\ \A n \in 1..Len(bursts.value) :
         IsBurst(bursts.value[n]) /\ bursts.value[n].timeSpan = SpanOf(bursts.value[n])
    /\ GroupsDisjoint
    /\ GroupsComplete

\* C29: the onProgress callback of analyzeImages is invoked exactly once per
\* file, the completed values it receives are 1, 2, ..., n in this order with
\* none repeated or skipped, and total is always n, under every interleaving
\* of the completions inside a batch.
C29_ProgressCountsEachFileOnce ==
  /\ completed = Len(progress)
  /\ \A k \in 1..Len(progress) :
       /\ progress[k].completed = k
       /\ progress[k].total = Len(filePaths)
       /\ \E j \in 1..Len(filePaths) : filePaths[j] = progress[k].current
  /\ \A j \in 1..Len(progress), k \in 1..Len(progress) :
       progress[j].current = progress[k].current => j = k
  /\ run = "resolved" => Len(progress) = Len(filePaths)

\* a returned run of three files in batches of two whose first batch
\* completed in the opposite order: the second file was reported first
C29_Witness ==
  /\ run = "resolved" /\ concurrency = 2 /\ Len(filePaths) = 3 /\ Len(progress) = 3
  /\ progress[1].current = filePaths[2] /\ progress[1].completed = 1
  /\ progress[2].current = filePaths[1] /\ progress[2].completed = 2
  /\ progress[3].current = filePaths[3] /\ progress[3].completed = 3

\* C30: analyzeImages terminates for every finite file list and every integer
\* concurrency >= 0: every step brings the run nearer to its return, and the
\* loop index is strictly greater after every iteration of the batch loop.
C30_LoopIndexAdvances ==
  [][ /\ StepsToReturn' < StepsToReturn
      /\ (run = "awaiting" /\ run' = "loop") => i' > i ]_vars
====
